---- MODULE Spec2Model ----
(***************************************************************************)
(* Model of the model format validator of ARModelShare                     *)
(* (client/src/services/validation.service.ts): the three-stage pipeline   *)
(* validateModel drives over a candidate file, its per-container checks,   *)
(* and the stage feed it pushes to the onStageUpdate observer; and of the  *)
(* upload workflow that calls it (client/src/hooks/useModelUpload.ts,      *)
(* client/src/services/upload.service.ts).                                 *)
(*                                                                         *)
(* Strings the code inspects character by character (file names, archive   *)
(* entry names, URIs, version strings) are sequences of one-character      *)
(* strings.  Messages are sequences of string parts, so that interpolated  *)
(* values keep their place in the message.  The first bytes of a file are  *)
(* bytes; what JSON.parse and JSZip make of the rest is the file's parsed  *)
(* document or archive.                                                    *)
(***************************************************************************)
EXTENDS Integers, Sequences, FiniteSets, TLC

VARIABLES
  file,       \* file[r]: the candidate file call r was given
  pc,         \* pc[r]: where call r stands in validateModel
  stages,     \* stages[r]: the call's three-element stage array
  issues,     \* issues[r]: the call's cumulative issue list
  emitted,    \* emitted[r]: what onStageUpdate was handed, one element per invocation
  held,       \* held[r]: what is read now through the array handed at each invocation
  executed,   \* executed[r]: the stage checks run so far, with the stage's status then
  reads,      \* reads[r]: reads of the file's bytes started so far
  returned,   \* returned[r]: what the call returned
  concurrent, \* whether the caller starts a call while another is in flight
  stored,     \* stored[r]: whether uploadModel has put the file of call r in the store
  resolution  \* the resolveZipPath call: its arguments, its result, the result resolved again

vars == <<file, pc, stages, issues, emitted, held, executed, reads, returned, concurrent,
          stored, resolution>>

(***************************************************************************)
(* Bounds of the model.                                                    *)
(***************************************************************************)
\* longest array (scenes, meshes, materials, animations) of a document
MaxArr == 1
\* longest buffers array and longest images array of a document
MaxRefs == 1

\* the validateModel calls the model follows
Runs == {1, 2}

(***************************************************************************)
(* Characters and strings.                                                 *)
(***************************************************************************)
UpperChars == <<"A","B","C","D","E","F","G","H","I","J","K","L","M",
                "N","O","P","Q","R","S","T","U","V","W","X","Y","Z">>
LowerChars == <<"a","b","c","d","e","f","g","h","i","j","k","l","m",
                "n","o","p","q","r","s","t","u","v","w","x","y","z">>

IndexIn(c, alphabet) ==
  IF \E i \in 1..Len(alphabet) : alphabet[i] = c
  THEN CHOOSE i \in 1..Len(alphabet) : alphabet[i] = c
  ELSE 0

\* String.prototype.toLowerCase, on the ASCII letters
toLowerCase(s) ==
  [i \in 1..Len(s) |->
     IF IndexIn(s[i], UpperChars) > 0 THEN LowerChars[IndexIn(s[i], UpperChars)] ELSE s[i]]

\* String.prototype.toUpperCase, on the ASCII letters
toUpperCase(s) ==
  [i \in 1..Len(s) |->
     IF IndexIn(s[i], LowerChars) > 0 THEN UpperChars[IndexIn(s[i], LowerChars)] ELSE s[i]]

\* String.prototype.lastIndexOf for a one-character needle: 0-based, -1 if absent
lastIndexOf(s, c) ==
  IF \E i \in 1..Len(s) : s[i] = c
  THEN (CHOOSE i \in 1..Len(s) : s[i] = c /\ \A j \in (i+1)..Len(s) : s[j] # c) - 1
  ELSE -1

\* String.prototype.substring(start): a negative start counts as 0
substring(s, start) ==
  LET from == IF start < 0 THEN 0 ELSE IF start > Len(s) THEN Len(s) ELSE start
  IN  [i \in 1..(Len(s) - from) |-> s[from + i]]

\* String.prototype.substring(start, end), 0 <= start <= end <= length
substring2(s, start, end) == [i \in 1..(end - start) |-> s[start + i]]

startsWith(s, prefix) ==
  /\ Len(s) >= Len(prefix)
  /\ \A i \in 1..Len(prefix) : s[i] = prefix[i]

endsWith(s, suffix) ==
  /\ Len(s) >= Len(suffix)
  /\ \A i \in 1..Len(suffix) : s[Len(s) - Len(suffix) + i] = suffix[i]

includes(s, c) == \E i \in 1..Len(s) : s[i] = c

Ext_glb  == <<".", "g", "l", "b">>
Ext_gltf == <<".", "g", "l", "t", "f">>
Ext_zip  == <<".", "z", "i", "p">>

(***************************************************************************)
(* Numbers.                                                                *)
(***************************************************************************)
MAX_SIZE         == 100 * 1024 * 1024
RECOMMENDED_SIZE == 10 * 1024 * 1024
OPTIMAL_SIZE     == 5 * 1024 * 1024
WARNING_SIZE     == 20 * 1024 * 1024

\* "glTF" read as a little-endian uint32
GLB_MAGIC  == 1179937895
\* "JSON" read as a little-endian uint32
JSON_CHUNK == 1313821514
\* the version of the binary container the validator accepts
GLB_VERSION == 2
\* bytes of the GLB header
GLB_HEADER_BYTES == 12

\* (size / 1024 / 1024).toFixed(2), as the parts of the printed number
toFixed2(size) ==
  LET mib        == 1024 * 1024
      whole      == size \div mib
      hundredths == ((size % mib) * 100 + (mib \div 2)) \div mib
      w          == IF hundredths = 100 THEN whole + 1 ELSE whole
      h          == IF hundredths = 100 THEN 0 ELSE hundredths
  IN  <<ToString(w), ".", ToString(h \div 10), ToString(h % 10)>>

\* DataView.prototype.getUint32(offset, true): little-endian, offset 0-based
getUint32(bytes, offset) ==
  bytes[offset + 1] + 256 * bytes[offset + 2] + 65536 * bytes[offset + 3]
    + 16777216 * bytes[offset + 4]

\* the four bytes a writer stores for n, least significant first
LE32(n) == <<n % 256, (n \div 256) % 256, (n \div 65536) % 256, n \div 16777216>>
\* the same number stored most significant byte first
BE32(n) == <<n \div 16777216, (n \div 65536) % 256, (n \div 256) % 256, n % 256>>

(***************************************************************************)
(* Decimal strings.                                                        *)
(***************************************************************************)
DigitChars == <<"0","1","2","3","4","5","6","7","8","9">>

isDigit(c) == IndexIn(c, DigitChars) > 0

\* how many digits s holds from 1-based position from on
LeadingDigits(s, from) ==
  CHOOSE n \in 0..(Len(s) + 1 - from) :
    /\ \A i \in 0..(n - 1) : isDigit(s[from + i])
    /\ (from + n > Len(s) \/ ~isDigit(s[from + n]))

RECURSIVE DigitsValue(_)
DigitsValue(ds) ==
  IF Len(ds) = 0 THEN 0
  ELSE 10 * DigitsValue(SubSeq(ds, 1, Len(ds) - 1)) + (IndexIn(ds[Len(ds)], DigitChars) - 1)

NaN == [nan |-> TRUE, neg |-> FALSE, int |-> 0, frac |-> <<>>]

\* parseFloat on a string without leading blanks or exponent: the longest
\* prefix of the form [+-]digits[.digits]; NaN when that prefix has no digit.
\* A value that is not a string is converted to one first, so parseFloat of
\* the version strings below is parseFloat of the JSON value they print.
parseFloat(s) ==
  LET signLen == IF Len(s) > 0 /\ s[1] \in {"+", "-"} THEN 1 ELSE 0
      n1      == LeadingDigits(s, signLen + 1)
      dotAt   == signLen + n1 + 1
      hasDot  == dotAt <= Len(s) /\ s[dotAt] = "."
      n2      == IF hasDot THEN LeadingDigits(s, dotAt + 1) ELSE 0
  IN  IF n1 + n2 = 0 THEN NaN
      ELSE [nan  |-> FALSE,
            neg  |-> (signLen = 1 /\ s[1] = "-"),
            int  |-> DigitsValue(SubSeq(s, signLen + 1, signLen + n1)),
            frac |-> IF hasDot THEN SubSeq(s, dotAt + 1, dotAt + n2) ELSE <<>>]

\* x < 2.0 for a parseFloat result: never true of NaN
LessThan2(x) == ~x.nan /\ (x.neg \/ x.int < 2)

(***************************************************************************)
(* Outcomes of the checks.  A check returns a record, throws, or (when an  *)
(* exception is raised inside a FileReader callback whose promise is then  *)
(* never resolved) never settles.                                          *)
(***************************************************************************)
NoMessage == <<>>

Ret(valid, message, warnings) ==
  [outcome |-> "return", error |-> "", valid |-> valid, message |-> message,
   formatMessage |-> NoMessage, warnings |-> warnings]

RetFormat(message, formatMessage) ==
  [outcome |-> "return", error |-> "", valid |-> TRUE, message |-> message,
   formatMessage |-> formatMessage, warnings |-> <<>>]

\* an exception of class error; warnings are the warnings pushed before it
Throw(error, warnings) ==
  [outcome |-> "throw", error |-> error, valid |-> FALSE,
   message |-> <<"<message of ", error, ">">>,
   formatMessage |-> NoMessage, warnings |-> warnings]

Never ==
  [outcome |-> "never", error |-> "", valid |-> FALSE, message |-> NoMessage,
   formatMessage |-> NoMessage, warnings |-> <<>>]

(***************************************************************************)
(* Parsed documents.  parse is what JSON.parse makes of the text: "object" *)
(* (a JSON object with the fields below), "null" (the JSON value null, on  *)
(* which every property access throws a TypeError), "syntax" (a            *)
(* SyntaxError) or "empty" (the empty text).  An array field holds its     *)
(* length, Absent when the key is missing.  version is the empty string    *)
(* when the key is missing.  buffers and images hold the uri of each       *)
(* element: the empty string when the element has none, NonStringUri when  *)
(* it is a truthy value that is not a string.  A missing buffers or images *)
(* key behaves as the empty array in every check and is modelled as one.   *)
(***************************************************************************)
Absent == -1
NonStringUri == <<"<not a string>">>
DataPrefix == <<"d", "a", "t", "a", ":">>

isFalsy(str) == Len(str) = 0
noneOrEmpty(arr) == arr = Absent \/ arr = 0

W_NoScenes    == <<"No scenes defined. Some AR viewers may not display the model correctly.">>
W_NoMaterials == <<"No materials defined. Model may appear without textures in AR viewers.">>
W_Animations  == <<"Model contains animations. Ensure AR viewer supports animated models.">>
M_NoMeshes    == <<"No meshes found in model">>

\* index of the first element whose uri is not a string, Len + 1 when there is none:
\* .startsWith on it throws a TypeError and ends the loop
FirstNonString(uris) ==
  IF \E i \in 1..Len(uris) : uris[i] = NonStringUri
  THEN CHOOSE i \in 1..Len(uris) :
         uris[i] = NonStringUri /\ \A j \in 1..(i - 1) : uris[j] # NonStringUri
  ELSE Len(uris) + 1

\* uri && !uri.startsWith('data:')
isExternal(uri) == ~isFalsy(uri) /\ ~startsWith(uri, DataPrefix)

(***************************************************************************)
(* validateFileIntegrity (stage 1).                                        *)
(***************************************************************************)
\* validateFileIntegrity with the test for the empty file left out
validateFileIntegrity_noEmptyTest(f) ==
  IF f.size > MAX_SIZE
  THEN Ret(FALSE, <<"File too large (">> \o toFixed2(f.size) \o <<"MB). Maximum 100MB.">>, <<>>)
  ELSE Ret(TRUE, <<"File integrity verified">>, <<>>)

\* validateFileIntegrity with the size limit itself rejected
validateFileIntegrity_atLimit(f) ==
  IF f.size = 0 THEN Ret(FALSE, <<"File is empty">>, <<>>)
  ELSE IF f.size >= MAX_SIZE
       THEN Ret(FALSE, <<"File too large (">> \o toFixed2(f.size) \o <<"MB). Maximum 100MB.">>, <<>>)
       ELSE Ret(TRUE, <<"File integrity verified">>, <<>>)

validateFileIntegrity(f) ==
  IF f.size = 0 THEN Ret(FALSE, <<"File is empty">>, <<>>)
  ELSE IF f.size > MAX_SIZE
       THEN Ret(FALSE, <<"File too large (">> \o toFixed2(f.size) \o <<"MB). Maximum 100MB.">>, <<>>)
       ELSE Ret(TRUE, <<"File integrity verified">>, <<>>)

(***************************************************************************)
(* validateGLB (stage 2, binary container).                                *)
(***************************************************************************)
\* the body of reader.onload with the version test ahead of the magic test
validateGLB_onload_versionFirst(f) ==
  LET byteLength == f.size
      dataView   == f.head
  IN  IF byteLength < GLB_HEADER_BYTES
      THEN Ret(FALSE, <<"File too small to be valid GLB">>, <<>>)
      ELSE IF getUint32(dataView, 4) # GLB_VERSION
      THEN Ret(FALSE, <<"Unsupported GLB version: ", ToString(getUint32(dataView, 4)),
                        ". Only version 2 supported.">>, <<>>)
      ELSE IF getUint32(dataView, 0) # GLB_MAGIC
      THEN Ret(FALSE, <<"Invalid GLB file: incorrect magic number">>, <<>>)
      ELSE IF getUint32(dataView, 8) # byteLength
      THEN Ret(FALSE, <<"GLB file length mismatch">>, <<>>)
      ELSE Ret(TRUE, <<"Valid GLB format">>, <<>>)

\* the body of reader.onload, inside its try
validateGLB_onload(f) ==
  LET byteLength == f.size
      dataView   == f.head
  IN  IF byteLength < GLB_HEADER_BYTES
      THEN Ret(FALSE, <<"File too small to be valid GLB">>, <<>>)
      ELSE IF getUint32(dataView, 0) # GLB_MAGIC
      THEN Ret(FALSE, <<"Invalid GLB file: incorrect magic number">>, <<>>)
      ELSE IF getUint32(dataView, 4) # GLB_VERSION
      THEN Ret(FALSE, <<"Unsupported GLB version: ", ToString(getUint32(dataView, 4)),
                        ". Only version 2 supported.">>, <<>>)
      ELSE IF getUint32(dataView, 8) # byteLength
      THEN Ret(FALSE, <<"GLB file length mismatch">>, <<>>)
      ELSE Ret(TRUE, <<"Valid GLB format">>, <<>>)

\* the catch of reader.onload, applied to what its try came to
validateGLB_catch(r) ==
  IF r.outcome = "throw"
  THEN Ret(FALSE, <<"GLB parsing error: ">> \o r.message, <<>>)
  ELSE r

validateGLB(f) ==
  IF ~f.readable THEN Ret(FALSE, <<"Failed to read GLB file">>, <<>>)
  ELSE validateGLB_catch(validateGLB_onload(f))

(***************************************************************************)
(* validateGLTF (stage 2, JSON container).                                 *)
(***************************************************************************)
\* the body of reader.onload after the empty-text test, inside its try
validateGLTF_onload(gltf) ==
  IF gltf.parse = "syntax" THEN Throw("SyntaxError", <<>>)
  ELSE IF gltf.parse = "null" THEN Throw("TypeError", <<>>)
  ELSE IF ~gltf.hasAsset
  THEN Ret(FALSE, <<"Missing required \"asset\" property">>, <<>>)
  ELSE IF isFalsy(gltf.version)
  THEN Ret(FALSE, <<"Missing GLTF version">>, <<>>)
  ELSE IF LessThan2(parseFloat(gltf.version))
  THEN Ret(FALSE, <<"GLTF version ">> \o gltf.version \o <<" not supported. Use 2.0+">>, <<>>)
  ELSE Ret(TRUE, <<"Valid GLTF format">>, <<>>)

\* validateGLTF with the try of reader.onload left out: an exception in the
\* callback leaves the promise unresolved
validateGLTF_noTry(f) ==
  IF ~f.readable THEN Ret(FALSE, <<"Failed to read GLTF file">>, <<>>)
  ELSE IF f.text.parse = "empty" THEN Ret(FALSE, <<"Failed to read file">>, <<>>)
  ELSE LET r == validateGLTF_onload(f.text)
       IN  IF r.outcome = "throw" THEN Never ELSE r

\* the catch of reader.onload, applied to what its try came to
validateGLTF_catch(r) ==
  IF r.outcome = "throw"
  THEN IF r.error = "SyntaxError"
       THEN Ret(FALSE, <<"Invalid JSON format">>, <<>>)
       ELSE Ret(FALSE, <<"GLTF parsing error: ">> \o r.message, <<>>)
  ELSE r

validateGLTF(f) ==
  IF ~f.readable THEN Ret(FALSE, <<"Failed to read GLTF file">>, <<>>)
  ELSE IF f.text.parse = "empty" THEN Ret(FALSE, <<"Failed to read file">>, <<>>)
  ELSE validateGLTF_catch(validateGLTF_onload(f.text))

(***************************************************************************)
(* resolveZipPath.                                                         *)
(***************************************************************************)
\* String.prototype.split for a one-character separator
RECURSIVE split(_, _)
split(s, sep) ==
  IF ~includes(s, sep) THEN <<s>>
  ELSE LET i == CHOOSE k \in 1..Len(s) : s[k] = sep /\ \A j \in 1..(k - 1) : s[j] # sep
       IN  <<SubSeq(s, 1, i - 1)>> \o split(SubSeq(s, i + 1, Len(s)), sep)

\* Array.prototype.join for a one-character separator
RECURSIVE join(_, _)
join(parts, sep) ==
  IF Len(parts) = 0 THEN <<>>
  ELSE IF Len(parts) = 1 THEN parts[1]
  ELSE parts[1] \o <<sep>> \o join(Tail(parts), sep)

\* the loop over parts: '..' pops (nothing, on an empty array), '' is skipped
RECURSIVE normalizeParts(_, _)
normalizeParts(parts, normalized) ==
  IF Len(parts) = 0 THEN normalized
  ELSE LET part == Head(parts)
       IN  IF part = <<".", ".">>
           THEN normalizeParts(Tail(parts),
                               IF Len(normalized) = 0 THEN normalized
                               ELSE SubSeq(normalized, 1, Len(normalized) - 1))
           ELSE IF part # <<>>
           THEN normalizeParts(Tail(parts), Append(normalized, part))
           ELSE normalizeParts(Tail(parts), normalized)

\* resolveZipPath with the filter of '.' parts left out
resolveZipPath_noDotFilter(baseDir, relativePath) ==
  LET path     == IF startsWith(relativePath, <<".", "/">>)
                  THEN substring(relativePath, 2) ELSE relativePath
      fullPath == baseDir \o path
      parts    == split(fullPath, "/")
  IN  join(normalizeParts(parts, <<>>), "/")

resolveZipPath(baseDir, relativePath) ==
  LET path     == IF startsWith(relativePath, <<".", "/">>)
                  THEN substring(relativePath, 2) ELSE relativePath
      fullPath == baseDir \o path
      parts    == SelectSeq(split(fullPath, "/"), LAMBDA p : p # <<".">>)
  IN  join(normalizeParts(parts, <<>>), "/")

(***************************************************************************)
(* Archives.  kind is "zip" when JSZip.loadAsync opens the bytes, "notzip" *)
(* when it finds no end of central directory and "corrupt" when it rejects *)
(* with a 'Corrupted zip' error.  entries are the archive's entries in     *)
(* archive order (the key order of zipContent.files); extraFiles counts    *)
(* further file entries whose names no reference of the document resolves  *)
(* to.                                                                     *)
(***************************************************************************)
\* zipContent.files[name] is defined
hasEntry(zip, name) == \E i \in 1..Len(zip.entries) : zip.entries[i].name = name

\* the keys of zipContent.files that end in .gltf and are no directory
gltfFilesOf(zip) ==
  SelectSeq(zip.entries, LAMBDA e : endsWith(toLowerCase(e.name), Ext_gltf) /\ ~e.dir)

gltfDirOf(gltfFilename) ==
  IF includes(gltfFilename, "/")
  THEN substring2(gltfFilename, 0, lastIndexOf(gltfFilename, "/") + 1)
  ELSE <<>>

\* JSZip.loadAsync(file): the archive, or the error it rejects with
loadAsync(f) ==
  IF ~f.readable THEN Throw("Error", <<>>)
  ELSE IF f.zip.kind = "notzip" THEN Throw("Error", <<>>)
  ELSE IF f.zip.kind = "corrupt" THEN Throw("Error: Corrupted zip", <<>>)
  ELSE Ret(TRUE, NoMessage, <<>>)

\* the references among uris from 1-based index i on that are external and
\* resolve to no entry, each as label, 0-based index and uri
RECURSIVE missingResourcesOf(_, _, _, _, _)
missingResourcesOf(uris, i, label, gltfDir, zip) ==
  IF i > Len(uris) THEN <<>>
  ELSE LET rest == missingResourcesOf(uris, i + 1, label, gltfDir, zip)
       IN  IF isExternal(uris[i]) /\ ~hasEntry(zip, resolveZipPath(gltfDir, uris[i]))
           THEN <<(<<label, " ", ToString(i - 1), ": ">> \o uris[i])>> \o rest
           ELSE rest

\* missingResources.join(', ')
RECURSIVE joinMessages(_)
joinMessages(items) ==
  IF Len(items) = 0 THEN <<>>
  ELSE IF Len(items) = 1 THEN items[1]
  ELSE items[1] \o <<", ">> \o joinMessages(Tail(items))

(***************************************************************************)
(* validateZIP (stage 2, archive container).                               *)
(***************************************************************************)
\* validateZIP_gltf with the version threshold test left out
validateZIP_gltf_noVersionTest(gltfFilename, gltf, missingResources) ==
  IF gltf.parse \in {"syntax", "empty"}
  THEN Ret(FALSE, <<"GLTF file in ZIP contains invalid JSON">>, <<>>)
  ELSE IF gltf.parse = "null" THEN Throw("TypeError", <<>>)
  ELSE IF ~gltf.hasAsset
  THEN Ret(FALSE, <<"GLTF file missing required \"asset\" property">>, <<>>)
  ELSE IF isFalsy(gltf.version)
  THEN Ret(FALSE, <<"GLTF file missing version">>, <<>>)
  ELSE IF \/ FirstNonString(gltf.buffers) <= Len(gltf.buffers)
          \/ FirstNonString(gltf.images) <= Len(gltf.images)
  THEN Throw("TypeError", <<>>)
  ELSE IF Len(missingResources) > 0
  THEN Ret(FALSE, <<"Missing referenced resources in ZIP: ">>
                    \o joinMessages(missingResources), <<>>)
  ELSE RetFormat(<<"Valid ZIP format">>,
                 <<"Valid ZIP with GLTF (">> \o gltfFilename \o <<")">>)

\* the parsed document of the archive's one GLTF file and its references
validateZIP_gltf(gltfFilename, gltf, missingResources) ==
  IF gltf.parse \in {"syntax", "empty"}
  THEN Ret(FALSE, <<"GLTF file in ZIP contains invalid JSON">>, <<>>)
  ELSE IF gltf.parse = "null" THEN Throw("TypeError", <<>>)
  ELSE IF ~gltf.hasAsset
  THEN Ret(FALSE, <<"GLTF file missing required \"asset\" property">>, <<>>)
  ELSE IF isFalsy(gltf.version)
  THEN Ret(FALSE, <<"GLTF file missing version">>, <<>>)
  ELSE IF LessThan2(parseFloat(gltf.version))
  THEN Ret(FALSE, <<"GLTF version ">> \o gltf.version
                    \o <<" not supported. Use 2.0+">>, <<>>)
  ELSE IF \/ FirstNonString(gltf.buffers) <= Len(gltf.buffers)
          \/ FirstNonString(gltf.images) <= Len(gltf.images)
  THEN Throw("TypeError", <<>>)
  ELSE IF Len(missingResources) > 0
  THEN Ret(FALSE, <<"Missing referenced resources in ZIP: ">>
                    \o joinMessages(missingResources), <<>>)
  ELSE RetFormat(<<"Valid ZIP format">>,
                 <<"Valid ZIP with GLTF (">> \o gltfFilename \o <<")">>)

\* missingResources with the loop over the images left out
missingResourcesIn_buffersOnly(gltf, gltfDir, zipContent) ==
  missingResourcesOf(gltf.buffers, 1, "Buffer", gltfDir, zipContent)

\* missingResourcesIn with no reference looked up
missingResourcesIn_none(gltf, gltfDir, zipContent) == <<>>

\* missingResources: the buffers, then the images, that resolve to no entry
missingResourcesIn(gltf, gltfDir, zipContent) ==
  missingResourcesOf(gltf.buffers, 1, "Buffer", gltfDir, zipContent)
    \o missingResourcesOf(gltf.images, 1, "Image", gltfDir, zipContent)

\* the main GLTF file of the archive, read and checked
validateZIP_main(zipContent, gltfFile) ==
  validateZIP_gltf(gltfFile.name, gltfFile.text,
                   missingResourcesIn(gltfFile.text, gltfDirOf(gltfFile.name), zipContent))

\* validateZIP_files without the test for more than one .gltf entry
validateZIP_files_noMultiple(zipContent, gltfFiles) ==
  IF Len(gltfFiles) = 0
  THEN Ret(FALSE, <<"No GLTF file found in ZIP archive">>, <<>>)
  ELSE validateZIP_main(zipContent, gltfFiles[1])

\* the tests on the number of .gltf entries
validateZIP_files(zipContent, gltfFiles) ==
  IF Len(gltfFiles) = 0
  THEN Ret(FALSE, <<"No GLTF file found in ZIP archive">>, <<>>)
  ELSE IF Len(gltfFiles) > 1
  THEN Ret(FALSE, <<"Multiple GLTF files found in ZIP (", ToString(Len(gltfFiles)),
                    "). ZIP should contain only one main GLTF file.">>, <<>>)
  ELSE validateZIP_main(zipContent, gltfFiles[1])

\* what follows JSZip.loadAsync: its error, or the checks of the archive
validateZIP_opened(f, opened) ==
  IF opened.outcome = "throw" THEN opened
  ELSE validateZIP_files(f.zip, gltfFilesOf(f.zip))

\* the body of the outer try
validateZIP_try(f) == validateZIP_opened(f, loadAsync(f))

\* the outer catch, applied to what the try came to
validateZIP_catch(r) ==
  IF r.outcome = "throw"
  THEN IF r.error = "Error: Corrupted zip"
       THEN Ret(FALSE, <<"Corrupted or invalid ZIP file">>, <<>>)
       ELSE Ret(FALSE, <<"ZIP validation failed: ">> \o r.message, <<>>)
  ELSE r

validateZIP(f) == validateZIP_catch(validateZIP_try(f))

(***************************************************************************)
(* validateFormat: the dispatch on the extension, inside its try.          *)
(***************************************************************************)
\* the body of the try
validateFormat_try(f, extension) ==
  IF extension = Ext_glb THEN validateGLB(f)
  ELSE IF extension = Ext_gltf THEN validateGLTF(f)
  ELSE IF extension = Ext_zip THEN validateZIP(f)
  ELSE Ret(FALSE, <<"Unsupported format">>, <<>>)

\* the catch, applied to what the try came to
validateFormat_catch(r) ==
  IF r.outcome = "throw"
  THEN Ret(FALSE, <<"Format validation failed: ">> \o r.message, <<>>)
  ELSE r

validateFormat(f, extension) == validateFormat_catch(validateFormat_try(f, extension))

(***************************************************************************)
(* Stage 3: the structure checks of the three containers.                  *)
(***************************************************************************)
scenesWarning(gltf)     == IF noneOrEmpty(gltf.scenes) THEN <<W_NoScenes>> ELSE <<>>
materialsWarning(gltf)  == IF gltf.materials = Absent THEN <<W_NoMaterials>> ELSE <<>>
\* animationsWarning without the test of the array's length
animationsWarning_anyArray(gltf) ==
  IF gltf.animations # Absent THEN <<W_Animations>> ELSE <<>>

animationsWarning(gltf) ==
  IF gltf.animations # Absent /\ gltf.animations > 0 THEN <<W_Animations>> ELSE <<>>

\* checkGLBStructure_chunk with the materials test left out
checkGLBStructure_chunk_noMaterials(f, chunkLength) ==
  LET gltf == f.chunk
  IN  IF GLB_HEADER_BYTES + 8 + chunkLength > f.size THEN Throw("RangeError", <<>>)
      ELSE IF chunkLength = 0 \/ gltf.parse \in {"syntax", "empty"}
      THEN Throw("SyntaxError", <<>>)
      ELSE IF gltf.parse = "null" THEN Throw("TypeError", <<>>)
      ELSE IF noneOrEmpty(gltf.meshes)
      THEN Ret(FALSE, M_NoMeshes, scenesWarning(gltf))
      ELSE Ret(TRUE, <<"GLB structure valid">>,
               scenesWarning(gltf) \o animationsWarning(gltf))

\* the body of the inner try of checkGLBStructure: the chunk's bytes decoded and checked
checkGLBStructure_chunk(f, chunkLength) ==
  LET gltf == f.chunk
  IN  IF GLB_HEADER_BYTES + 8 + chunkLength > f.size THEN Throw("RangeError", <<>>)
      ELSE IF chunkLength = 0 \/ gltf.parse \in {"syntax", "empty"}
      THEN Throw("SyntaxError", <<>>)
      ELSE IF gltf.parse = "null" THEN Throw("TypeError", <<>>)
      ELSE IF noneOrEmpty(gltf.meshes)
      THEN Ret(FALSE, M_NoMeshes, scenesWarning(gltf))
      ELSE Ret(TRUE, <<"GLB structure valid">>,
               scenesWarning(gltf) \o materialsWarning(gltf) \o animationsWarning(gltf))

\* the inner catch, applied to what the inner try came to
checkGLBStructure_chunkCatch(r) ==
  IF r.outcome = "throw"
  THEN Ret(FALSE, <<"Failed to parse GLB JSON chunk">>, r.warnings)
  ELSE r

\* the body of reader.onload of checkGLBStructure
checkGLBStructure_onload(f) ==
  LET offset == GLB_HEADER_BYTES
  IN  IF offset + 8 <= f.size
      THEN IF getUint32(f.head, offset + 4) # JSON_CHUNK
           THEN Ret(FALSE, <<"Invalid GLB structure: missing JSON chunk">>, <<>>)
           ELSE checkGLBStructure_chunkCatch(
                  checkGLBStructure_chunk(f, getUint32(f.head, offset)))
      ELSE Ret(TRUE, <<"GLB structure valid">>, <<>>)

\* the outer catch, applied to what the outer try came to
checkGLBStructure_catch(r) ==
  IF r.outcome = "throw"
  THEN Ret(FALSE, <<"GLB structure check failed: ">> \o r.message, r.warnings)
  ELSE r

checkGLBStructure(f) ==
  IF ~f.readable THEN Ret(FALSE, <<"Failed to read GLB file">>, <<>>)
  ELSE checkGLBStructure_catch(checkGLBStructure_onload(f))

\* the warnings of gltf.buffers.forEach / gltf.images.forEach for the elements
\* from 1-based index i up to, not including, upto
RECURSIVE externalWarnings(_, _, _, _)
externalWarnings(uris, i, upto, kind) ==
  IF i >= upto THEN <<>>
  ELSE LET rest == externalWarnings(uris, i + 1, upto, kind)
       IN  IF isExternal(uris[i])
           THEN <<(IF kind = "buffer"
                   THEN <<"External buffer ", ToString(i - 1),
                          " referenced. Ensure all resources are uploaded together.">>
                   ELSE <<"External image ", ToString(i - 1),
                          " referenced. Ensure all textures are uploaded together.">>)>>
                \o rest
           ELSE rest

\* the body of reader.onload of checkGLTFStructure after the empty-text test
\* the loops over buffers and images and the test of animations: bufferWarnings
\* are the warnings on hand when the buffers loop ends, imageWarnings those on
\* hand when the images loop ends
checkGLTFStructure_refs(gltf, badBuffer, badImage, bufferWarnings, imageWarnings) ==
  IF badBuffer <= Len(gltf.buffers) THEN Throw("TypeError", bufferWarnings)
  ELSE IF badImage <= Len(gltf.images) THEN Throw("TypeError", imageWarnings)
  ELSE Ret(TRUE, <<"GLTF structure valid">>, imageWarnings \o animationsWarning(gltf))

\* the warnings on hand when the buffers loop ends
checkGLTFStructure_bufferWarnings(gltf) ==
  scenesWarning(gltf) \o materialsWarning(gltf)
    \o externalWarnings(gltf.buffers, 1, FirstNonString(gltf.buffers), "buffer")

\* the warnings on hand when the images loop ends
checkGLTFStructure_imageWarnings(gltf) ==
  checkGLTFStructure_bufferWarnings(gltf)
    \o externalWarnings(gltf.images, 1, FirstNonString(gltf.images), "image")

checkGLTFStructure_onload(gltf) ==
  IF gltf.parse = "syntax" THEN Throw("SyntaxError", <<>>)
  ELSE IF gltf.parse = "null" THEN Throw("TypeError", <<>>)
  ELSE IF noneOrEmpty(gltf.meshes) THEN Ret(FALSE, M_NoMeshes, scenesWarning(gltf))
  ELSE checkGLTFStructure_refs(gltf, FirstNonString(gltf.buffers),
                               FirstNonString(gltf.images),
                               checkGLTFStructure_bufferWarnings(gltf),
                               checkGLTFStructure_imageWarnings(gltf))

\* the catch of reader.onload, applied to what its try came to
checkGLTFStructure_catch(r) ==
  IF r.outcome = "throw"
  THEN Ret(FALSE, <<"GLTF structure check failed: ">> \o r.message, r.warnings)
  ELSE r

checkGLTFStructure(f) ==
  IF ~f.readable THEN Ret(FALSE, <<"Failed to read GLTF file">>, <<>>)
  ELSE IF f.text.parse = "empty" THEN Ret(FALSE, <<"Failed to read file">>, <<>>)
  ELSE checkGLTFStructure_catch(checkGLTFStructure_onload(f.text))

\* the warnings of the loops of checkZIPStructure over buffers / images, for the
\* elements from 1-based index i up to, not including, upto
RECURSIVE notFoundWarnings(_, _, _, _, _, _)
notFoundWarnings(uris, i, upto, kind, gltfDir, zip) ==
  IF i >= upto THEN <<>>
  ELSE LET rest == notFoundWarnings(uris, i + 1, upto, kind, gltfDir, zip)
       IN  IF isExternal(uris[i]) /\ ~hasEntry(zip, resolveZipPath(gltfDir, uris[i]))
           THEN <<(IF kind = "buffer"
                   THEN <<"Referenced buffer not found in ZIP: ">> \o uris[i]
                   ELSE <<"Referenced texture not found in ZIP: ">> \o uris[i])>>
                \o rest
           ELSE rest

\* Object.keys(zipContent.files).filter(f => !zipContent.files[f].dir).length
fileCountOf(zip) ==
  Len(SelectSeq(zip.entries, LAMBDA e : ~e.dir)) + zip.extraFiles

\* more files than this in an archive draw a warning
MAX_ZIP_FILES == 50

\* the warnings on hand when the buffers loop ends
checkZIPStructure_bufferWarnings(gltf, gltfDir, zipContent) ==
  scenesWarning(gltf) \o materialsWarning(gltf)
    \o notFoundWarnings(gltf.buffers, 1, FirstNonString(gltf.buffers), "buffer",
                        gltfDir, zipContent)

\* the warnings on hand when the images loop ends
checkZIPStructure_imageWarnings(gltf, gltfDir, zipContent) ==
  checkZIPStructure_bufferWarnings(gltf, gltfDir, zipContent)
    \o notFoundWarnings(gltf.images, 1, FirstNonString(gltf.images), "image",
                        gltfDir, zipContent)

\* the warning on gltf.extensionsRequired
extensionsWarning(gltf) ==
  IF Len(gltf.extensionsRequired) > 0
  THEN <<(<<"Model requires extensions: ">>
          \o joinMessages([i \in 1..Len(gltf.extensionsRequired)
                            |-> <<gltf.extensionsRequired[i]>>])
          \o <<". Ensure AR viewer supports these.">>)>>
  ELSE <<>>

\* the warning on the number of files
fileCountWarning(fileCount) ==
  IF fileCount > MAX_ZIP_FILES
  THEN <<(<<"ZIP contains ", ToString(fileCount),
            " files. Large file counts may slow loading.">>)>>
  ELSE <<>>

\* the parsed document of the archive's first GLTF file, checked
checkZIPStructure_gltf(gltf, badBuffer, badImage, bufferWarnings, imageWarnings, fileCount) ==
  IF gltf.parse \in {"syntax", "empty"} THEN Throw("SyntaxError", <<>>)
  ELSE IF gltf.parse = "null" THEN Throw("TypeError", <<>>)
  ELSE IF noneOrEmpty(gltf.meshes)
  THEN Ret(FALSE, M_NoMeshes, scenesWarning(gltf))
  ELSE IF badBuffer <= Len(gltf.buffers) THEN Throw("TypeError", bufferWarnings)
  ELSE IF badImage <= Len(gltf.images) THEN Throw("TypeError", imageWarnings)
  ELSE Ret(TRUE, <<"ZIP structure valid for AR">>,
           imageWarnings \o animationsWarning(gltf) \o extensionsWarning(gltf)
             \o fileCountWarning(fileCount))

\* the first GLTF file of the archive, read and checked
checkZIPStructure_main(zipContent, gltf, gltfDir) ==
  checkZIPStructure_gltf(gltf, FirstNonString(gltf.buffers), FirstNonString(gltf.images),
                         checkZIPStructure_bufferWarnings(gltf, gltfDir, zipContent),
                         checkZIPStructure_imageWarnings(gltf, gltfDir, zipContent),
                         fileCountOf(zipContent))

\* the test on the number of .gltf entries
checkZIPStructure_files(zipContent, gltfFiles) ==
  IF Len(gltfFiles) = 0
  THEN Ret(FALSE, <<"No GLTF file found in ZIP">>, <<>>)
  ELSE checkZIPStructure_main(zipContent, gltfFiles[1].text, gltfDirOf(gltfFiles[1].name))

\* what follows JSZip.loadAsync: its error, or the checks of the archive
checkZIPStructure_opened(f, opened) ==
  IF opened.outcome = "throw" THEN opened
  ELSE checkZIPStructure_files(f.zip, gltfFilesOf(f.zip))

\* the body of the try of checkZIPStructure
checkZIPStructure_try(f) == checkZIPStructure_opened(f, loadAsync(f))

\* the catch, applied to what the try came to
checkZIPStructure_catch(r) ==
  IF r.outcome = "throw"
  THEN Ret(FALSE, <<"ZIP structure check failed: ">> \o r.message, r.warnings)
  ELSE r

checkZIPStructure(f) == checkZIPStructure_catch(checkZIPStructure_try(f))

(***************************************************************************)
(* validateARCompatibility (stage 3).                                      *)
(***************************************************************************)
\* the file-size recommendations
sizeWarnings(f) ==
  IF f.size > WARNING_SIZE
  THEN <<(<<"Large file size (">> \o toFixed2(f.size)
          \o <<"MB) may cause performance issues on mobile AR devices">>)>>
  ELSE IF f.size > OPTIMAL_SIZE
  THEN <<(<<"File size (">> \o toFixed2(f.size)
          \o <<"MB) is above optimal 5MB for best AR performance">>)>>
  ELSE <<>>

\* the structure check of the file's container
validateARCompatibility_structure(f, extension) ==
  IF extension = Ext_glb THEN checkGLBStructure(f)
  ELSE IF extension = Ext_gltf THEN checkGLTFStructure(f)
  ELSE IF extension = Ext_zip THEN checkZIPStructure(f)
  ELSE Ret(TRUE, NoMessage, <<>>)

\* the return of a valid structure with its warnings and the size warnings
validateARCompatibility_compatible(warnings) ==
  Ret(TRUE,
      IF Len(warnings) > 0 THEN <<"Model is compatible with warnings">>
      ELSE <<"Model is fully AR-compatible">>,
      warnings)

\* validateARCompatibility_result with the size recommendations made for a
\* structure that is not valid as well
validateARCompatibility_result_sizeAlways(f, result) ==
  IF result.outcome # "return" THEN result
  ELSE IF ~result.valid
  THEN Ret(FALSE, result.message, result.warnings \o sizeWarnings(f))
  ELSE validateARCompatibility_compatible(result.warnings \o sizeWarnings(f))

\* what follows the structure check
validateARCompatibility_result(f, result) ==
  IF result.outcome # "return" THEN result
  ELSE IF ~result.valid THEN Ret(FALSE, result.message, result.warnings)
  ELSE validateARCompatibility_compatible(result.warnings \o sizeWarnings(f))

\* the body of the try
validateARCompatibility_try(f, extension) ==
  validateARCompatibility_result(f, validateARCompatibility_structure(f, extension))

\* the catch, applied to what the try came to
validateARCompatibility_catch(r) ==
  IF r.outcome = "throw"
  THEN Ret(FALSE, <<"AR compatibility check failed: ">> \o r.message, r.warnings)
  ELSE r

validateARCompatibility(f, extension) ==
  validateARCompatibility_catch(validateARCompatibility_try(f, extension))

(***************************************************************************)
(* validateModel: the stage orchestrator.                                  *)
(***************************************************************************)
StageNames == <<"file-integrity", "format-validation", "ar-compatibility">>

\* the stages array as created
InitialStages ==
  [i \in 1..3 |-> [stage |-> StageNames[i], status |-> "pending", message |-> NoMessage]]

NoResult == [status |-> "none", issues |-> <<>>]

\* no resolveZipPath call is followed
NoResolution == [pc |-> "none", baseDir |-> <<>>, relativePath |-> <<>>,
                 normalized |-> <<>>, again |-> <<>>]

\* where a call stands once it is over: returned, rejected with an exception,
\* or waiting for a promise that never settles
Terminal == {"done", "threw", "hung"}

\* stages[i].status = status; stages[i].message = message  (i counts from 1)
setStage(st, i, status, message) ==
  [st EXCEPT ![i] = [stage |-> st[i].stage, status |-> status, message |-> message]]

\* stages[i].status = status
setStatus(st, i, status) == [st EXCEPT ![i].status = status]

\* file.name.toLowerCase().substring(file.name.lastIndexOf('.'))
extensionOf(name) == substring(toLowerCase(name), lastIndexOf(name, "."))

isSupported(extension) == extension \in {Ext_glb, Ext_gltf, Ext_zip}

\* reads of the file a container check starts: one FileReader read, or one
\* JSZip.loadAsync, for each of the three containers, none for any other extension
readsFor(extension) == IF isSupported(extension) THEN 1 ELSE 0

\* the final status with stages.some in the place of stages.every
finalStatus_some(st) ==
  LET allPassed          == \E i \in 1..Len(st) : st[i].status = "passed"
      hasCriticalFailure == \E i \in 1..Len(st) : st[i].status = "failed"
  IN  IF allPassed THEN "ready" ELSE IF hasCriticalFailure THEN "error" ELSE "warning"

\* the final status
finalStatus(st) ==
  LET allPassed          == \A i \in 1..Len(st) : st[i].status = "passed"
      hasCriticalFailure == \E i \in 1..Len(st) : st[i].status = "failed"
  IN  IF allPassed THEN "ready" ELSE IF hasCriticalFailure THEN "error" ELSE "warning"

\* the stage's check starts: its name and the status the stage has then
ran(r, i) == Append(executed[r], [check |-> StageNames[i], status |-> stages[r][i].status])

\* settle with one stage array and one issue list kept by the service and used
\* by every call that is in flight, in the place of arrays created by the call
settle_shared(r, st, iss, ret, next) ==
  /\ stages'   = [q \in DOMAIN stages |->
                    IF pc[q] \in Terminal \cup {"idle"} THEN stages[q] ELSE st]
  /\ issues'   = [q \in DOMAIN issues |->
                    IF pc[q] \in Terminal \cup {"idle"} THEN issues[q] ELSE iss]
  /\ emitted'  = [emitted EXCEPT ![r] = Append(@, st)]
  /\ held'     = [held EXCEPT ![r] = [k \in 1..(Len(@) + 1) |-> st]]
  /\ returned' = [returned EXCEPT ![r] = ret]
  /\ pc'       = [pc EXCEPT ![r] = next]

\* what a stage does when it settles: stages, issues, one onStageUpdate call,
\* then the return (ret, when next is "done") or the next step
settle(r, st, iss, ret, next) ==
  /\ stages'   = [stages EXCEPT ![r] = st]
  /\ issues'   = [issues EXCEPT ![r] = iss]
  /\ emitted'  = [emitted EXCEPT ![r] = Append(@, st)]
  /\ held'     = [held EXCEPT ![r] = [k \in 1..(Len(@) + 1) |-> st]]
  /\ returned' = [returned EXCEPT ![r] = ret]
  /\ pc'       = [pc EXCEPT ![r] = next]

\* return { status: 'error', issues }
errorWith(iss) == [status |-> "error", issues |-> iss]

\* a check ended without a value: the call rejects, or never settles
abandon(r, outcome) ==
  /\ pc' = [pc EXCEPT ![r] = IF outcome = "throw" THEN "threw" ELSE "hung"]
  /\ UNCHANGED <<stages, issues, emitted, held, returned>>

\* the caller starts call r without waiting for call q to be over
mayOverlap(q, r) == concurrent /\ q \in Runs /\ r \in Runs

\* Enter with one issue list kept by the service and handed to every call,
\* in the place of a list created by the call
Enter_sharedIssues(r) ==
  /\ pc[r] = "idle"
  /\ \A q \in DOMAIN pc : (q < r /\ ~mayOverlap(q, r)) => pc[q] \in Terminal
  /\ stages' = [stages EXCEPT ![r] = InitialStages]
  /\ issues' = [issues EXCEPT ![r] = IF r > 1 THEN issues[r - 1] ELSE <<>>]
  /\ pc'     = [pc EXCEPT ![r] = "created"]
  /\ UNCHANGED <<file, emitted, held, executed, reads, returned, concurrent, stored, resolution>>

\* the stages and the issue list are created
Enter(r) ==
  /\ pc[r] = "idle"
  /\ \A q \in DOMAIN pc : (q < r /\ ~mayOverlap(q, r)) => pc[q] \in Terminal
  /\ stages' = [stages EXCEPT ![r] = InitialStages]
  /\ issues' = [issues EXCEPT ![r] = <<>>]
  /\ pc'     = [pc EXCEPT ![r] = "created"]
  /\ UNCHANGED <<file, emitted, held, executed, reads, returned, concurrent, stored, resolution>>

\* BeginIntegrity with onStageUpdate called before stage 1 is marked processing
BeginIntegrity_emitFirst(r) ==
  /\ pc[r] = "created"
  /\ stages'  = [stages EXCEPT ![r] = setStatus(stages[r], 1, "processing")]
  /\ emitted' = [emitted EXCEPT ![r] = Append(@, stages[r])]
  /\ held'    = [held EXCEPT ![r] = [k \in 1..(Len(@) + 1) |->
                                        setStatus(stages[r], 1, "processing")]]
  /\ pc' = [pc EXCEPT ![r] = "integrity"]
  /\ UNCHANGED <<file, issues, executed, reads, returned, concurrent, stored, resolution>>

\* BeginIntegrity with the assignment of processing left out
BeginIntegrity_noMark(r) ==
  /\ pc[r] = "created"
  /\ emitted' = [emitted EXCEPT ![r] = Append(@, stages[r])]
  /\ held'    = [held EXCEPT ![r] = [k \in 1..(Len(@) + 1) |-> stages[r]]]
  /\ pc' = [pc EXCEPT ![r] = "integrity"]
  /\ UNCHANGED <<file, stages, issues, executed, reads, returned, concurrent, stored, resolution>>

\* Stage 1 is marked processing and the stages are handed to the observer
BeginIntegrity(r) ==
  /\ pc[r] = "created"
  /\ LET st == setStatus(stages[r], 1, "processing")
     IN  /\ stages'  = [stages EXCEPT ![r] = st]
         /\ emitted' = [emitted EXCEPT ![r] = Append(@, st)]
         /\ held'    = [held EXCEPT ![r] = [k \in 1..(Len(@) + 1) |-> st]]
  /\ pc' = [pc EXCEPT ![r] = "integrity"]
  /\ UNCHANGED <<file, issues, executed, reads, returned, concurrent, stored, resolution>>

\* IntegrityStep with the return of the failure branch left out
IntegrityStep_noReturn(r) ==
  /\ pc[r] = "integrity"
  /\ executed' = [executed EXCEPT ![r] = ran(r, 1)]
  /\ LET integrityResult == validateFileIntegrity(file[r])
     IN  IF ~integrityResult.valid
         THEN settle(r, setStage(stages[r], 1, "failed", integrityResult.message),
                     Append(issues[r], integrityResult.message), NoResult, "extension")
         ELSE settle(r, setStatus(setStage(stages[r], 1, "passed",
                                           <<"File integrity verified">>),
                                  2, "processing"),
                     issues[r], NoResult, "extension")
  /\ UNCHANGED <<file, reads, concurrent, stored, resolution>>

\* Stage 1: validateFileIntegrity and what follows from its result
IntegrityStep(r) ==
  /\ pc[r] = "integrity"
  /\ executed' = [executed EXCEPT ![r] = ran(r, 1)]
  /\ LET integrityResult == validateFileIntegrity(file[r])
     IN  IF ~integrityResult.valid
         THEN settle(r, setStage(stages[r], 1, "failed", integrityResult.message),
                     Append(issues[r], integrityResult.message),
                     errorWith(Append(issues[r], integrityResult.message)), "done")
         ELSE settle(r, setStatus(setStage(stages[r], 1, "passed",
                                           <<"File integrity verified">>),
                                  2, "processing"),
                     issues[r], NoResult, "extension")
  /\ UNCHANGED <<file, reads, concurrent, stored, resolution>>

\* ExtensionStep with the extension test left out
ExtensionStep_noTest(r) ==
  /\ pc[r] = "extension"
  /\ pc' = [pc EXCEPT ![r] = "format"]
  /\ UNCHANGED <<file, stages, issues, emitted, held, returned, executed, reads, concurrent, stored, resolution>>

\* Stage 2, first part: the extension test
ExtensionStep(r) ==
  /\ pc[r] = "extension"
  /\ LET extension == extensionOf(file[r].name)
     IN  IF ~isSupported(extension)
         THEN LET iss == Append(issues[r],
                    <<"File format not supported. AR viewers require GLB, GLTF, or ZIP with GLTF.">>)
              IN  settle(r, setStage(stages[r], 2, "failed",
                                     <<"Unsupported file format. Use GLB, GLTF, or ZIP.">>),
                         iss, errorWith(iss), "done")
         ELSE /\ pc' = [pc EXCEPT ![r] = "format"]
              /\ UNCHANGED <<stages, issues, emitted, held, returned>>
  /\ UNCHANGED <<file, executed, reads, concurrent, stored, resolution>>

\* formatResult.formatMessage || `Valid ${extension.toUpperCase()} format detected`
formatMessageOf(formatResult, extension) ==
  IF formatResult.formatMessage # NoMessage
  THEN formatResult.formatMessage
  ELSE <<"Valid ">> \o toUpperCase(extension) \o <<" format detected">>

\* formatFailed with the push of the message into issues left out
formatFailed_noIssue(r, message) ==
  settle(r, setStage(stages[r], 2, "failed", message), issues[r], errorWith(issues[r]), "done")

\* stage 2 fails: the stage, the issue and the return
formatFailed(r, message) ==
  settle(r, setStage(stages[r], 2, "failed", message), Append(issues[r], message),
         errorWith(Append(issues[r], message)), "done")

\* FormatStep with stage 3 not marked processing when stage 2 passes
FormatStep_noProcessing(r) ==
  /\ pc[r] = "format"
  /\ executed' = [executed EXCEPT ![r] = ran(r, 2)]
  /\ reads'    = [reads EXCEPT ![r] = @ + readsFor(extensionOf(file[r].name))]
  /\ \E formatResult \in {validateFormat(file[r], extensionOf(file[r].name))} :
       IF formatResult.outcome # "return" THEN abandon(r, formatResult.outcome)
       ELSE IF ~formatResult.valid THEN formatFailed(r, formatResult.message)
       ELSE settle(r,
                   setStage(stages[r], 2, "passed",
                            formatMessageOf(formatResult, extensionOf(file[r].name))),
                   issues[r], NoResult, "compat")
  /\ UNCHANGED <<file, concurrent, stored, resolution>>

\* Stage 2, second part: validateFormat and what follows from its result
FormatStep(r) ==
  /\ pc[r] = "format"
  /\ executed' = [executed EXCEPT ![r] = ran(r, 2)]
  /\ reads'    = [reads EXCEPT ![r] = @ + readsFor(extensionOf(file[r].name))]
  /\ \E formatResult \in {validateFormat(file[r], extensionOf(file[r].name))} :
       IF formatResult.outcome # "return" THEN abandon(r, formatResult.outcome)
       ELSE IF ~formatResult.valid THEN formatFailed(r, formatResult.message)
       ELSE settle(r,
                   setStatus(setStage(stages[r], 2, "passed",
                                      formatMessageOf(formatResult,
                                                      extensionOf(file[r].name))),
                             3, "processing"),
                   issues[r], NoResult, "compat")
  /\ UNCHANGED <<file, concurrent, stored, resolution>>

\* finish with the last onStageUpdate left out
finish_noEmit(r, st, iss) ==
  /\ stages'   = [stages EXCEPT ![r] = st]
  /\ issues'   = [issues EXCEPT ![r] = iss]
  /\ held'     = [held EXCEPT ![r] = [k \in 1..Len(@) |-> st]]
  /\ returned' = [returned EXCEPT ![r] = [status |-> finalStatus(st), issues |-> iss]]
  /\ pc'       = [pc EXCEPT ![r] = "done"]
  /\ UNCHANGED emitted

\* the last onStageUpdate and the return of the final status with the issues
finish(r, st, iss) ==
  settle(r, st, iss, [status |-> finalStatus(st), issues |-> iss], "done")

\* CompatStep with the warnings pushed only when the check reports valid
CompatStep_warningsWhenValid(r) ==
  /\ pc[r] = "compat"
  /\ executed' = [executed EXCEPT ![r] = ran(r, 3)]
  /\ reads'    = [reads EXCEPT ![r] = @ + readsFor(extensionOf(file[r].name))]
  /\ \E compatibilityResult \in
          {validateARCompatibility(file[r], extensionOf(file[r].name))} :
       IF compatibilityResult.outcome # "return"
       THEN abandon(r, compatibilityResult.outcome)
       ELSE IF compatibilityResult.valid
       THEN finish(r, setStage(stages[r], 3, "passed", compatibilityResult.message),
                   issues[r] \o compatibilityResult.warnings)
       ELSE finish(r, setStage(stages[r], 3, "failed", compatibilityResult.message),
                   Append(issues[r], compatibilityResult.message))
  /\ UNCHANGED <<file, concurrent, stored, resolution>>

\* Stage 3: validateARCompatibility, the last onStageUpdate and the final status
CompatStep(r) ==
  /\ pc[r] = "compat"
  /\ executed' = [executed EXCEPT ![r] = ran(r, 3)]
  /\ reads'    = [reads EXCEPT ![r] = @ + readsFor(extensionOf(file[r].name))]
  /\ \E compatibilityResult \in
          {validateARCompatibility(file[r], extensionOf(file[r].name))} :
       IF compatibilityResult.outcome # "return"
       THEN abandon(r, compatibilityResult.outcome)
       ELSE IF compatibilityResult.valid
       THEN finish(r, setStage(stages[r], 3, "passed", compatibilityResult.message),
                   issues[r] \o compatibilityResult.warnings)
       ELSE finish(r, setStage(stages[r], 3, "failed", compatibilityResult.message),
                   Append(issues[r] \o compatibilityResult.warnings,
                          compatibilityResult.message))
  /\ UNCHANGED <<file, concurrent, stored, resolution>>

(***************************************************************************)
(* The candidate files the model validates.                                *)
(*                                                                         *)
(* A file is its name, its size, whether its bytes can be read, the first  *)
(* HeadBytes bytes (head), what the JSON chunk of a GLB parses to (chunk), *)
(* what the whole content parses to as text (text) and what JSZip makes of *)
(* it (zip).  Binary content is no JSON text and no archive; JSON text and *)
(* archives start with bytes that are no GLB magic.                        *)
(***************************************************************************)
Name_glb    == <<"m", ".", "g", "l", "b">>
Name_GLB    == <<"M", ".", "G", "L", "B">>
Name_gltf   == <<"m", ".", "g", "l", "t", "f">>
Name_zip    == <<"a", ".", "b", ".", "Z", "i", "p">>
Name_txt    == <<"m", ".", "t", "x", "t">>
Name_noDot  == <<"g", "l", "b">>
Name_glbTxt == <<"m", ".", "g", "l", "b", ".", "t", "x", "t">>
Name_dotEnd == <<"z", "i", "p", ".">>

Names == {Name_glb, Name_GLB, Name_gltf, Name_zip, Name_txt, Name_noDot,
          Name_glbTxt, Name_dotEnd}

\* header and first chunk header of a GLB
HeadBytes == 20

Sizes == {HeadBytes, 64, OPTIMAL_SIZE, OPTIMAL_SIZE + 1, RECOMMENDED_SIZE + 1,
          WARNING_SIZE, WARNING_SIZE + 1, MAX_SIZE, MAX_SIZE + 1}

GoodDoc ==
  [parse |-> "object", hasAsset |-> TRUE, version |-> <<"2", ".", "0">>,
   scenes |-> 1, meshes |-> 1, materials |-> 1, animations |-> 0,
   buffers |-> <<>>, images |-> <<>>, extensionsRequired |-> <<>>]

SyntaxDoc == [GoodDoc EXCEPT !.parse = "syntax"]
NullDoc   == [GoodDoc EXCEPT !.parse = "null"]
EmptyDoc  == [GoodDoc EXCEPT !.parse = "empty"]

ArrayLens == {Absent} \cup (0..MaxArr)

\* documents that differ in what stage 3 looks at
CompatDocs ==
  {[GoodDoc EXCEPT !.scenes = s, !.meshes = m, !.materials = t, !.animations = a] :
     s \in ArrayLens, m \in ArrayLens, t \in ArrayLens, a \in ArrayLens}

Versions == {<<>>, <<"2", ".", "0">>, <<"1", ".", "0">>, <<"1", ".", "9">>,
             <<"2", ".", "1">>, <<"1", "0">>, <<"2">>, <<"-", "2">>, <<".", "5">>,
             <<"a", "b", "c">>, <<"v", "2">>}

\* documents that differ in what the format checks look at
FormatDocs ==
  {SyntaxDoc, NullDoc, EmptyDoc}
    \cup {[GoodDoc EXCEPT !.hasAsset = FALSE, !.meshes = m] : m \in {0, 1}}
    \cup {[GoodDoc EXCEPT !.version = v, !.meshes = m] : v \in Versions, m \in {0, 1}}

Uri_data   == <<"d", "a", "t", "a", ":", "x">>
Uri_bin    == <<"b", ".", "b", "i", "n">>
Uri_dotBin == <<".", "/", "b", ".", "b", "i", "n">>
Uri_upBin  == <<".", ".", "/", "b", ".", "b", "i", "n">>
Uri_png    == <<"t", "/", "l", ".", "p", "n", "g">>
Uri_none   == <<>>

BufferUris == {Uri_data, Uri_bin, Uri_dotBin, Uri_upBin, Uri_none, NonStringUri}
ImageUris  == {Uri_data, Uri_png, NonStringUri}

SeqsUpTo(S, n) == UNION {[1..k -> S] : k \in 0..n}

\* documents that differ in their references
RefDocs ==
  {[GoodDoc EXCEPT !.buffers = b, !.images = i, !.materials = t, !.extensionsRequired = x] :
     b \in SeqsUpTo(BufferUris, MaxRefs), i \in SeqsUpTo(ImageUris, MaxRefs),
     t \in {Absent, 1}, x \in {<<>>, <<"KHR_draco_mesh_compression">>}}

\* documents with animations that differ in their one reference
AnimatedRefDocs ==
  {[GoodDoc EXCEPT !.animations = 1, !.materials = Absent, !.buffers = <<u>>] :
     u \in {Uri_bin, NonStringUri}}

Docs == CompatDocs \cup FormatDocs \cup RefDocs \cup AnimatedRefDocs

NoZip      == [kind |-> "notzip", entries |-> <<>>, extraFiles |-> 0]
CorruptZip == [kind |-> "corrupt", entries |-> <<>>, extraFiles |-> 0]

\* the first bytes of a JSON text: {"asset":{"version":
TextHead == <<123, 34, 97, 115, 115, 101, 116, 34, 58, 123,
              34, 118, 101, 114, 115, 105, 111, 110, 34, 58>>
\* the first bytes of an archive: the local file header signature PK\3\4 and what follows
ZipHead  == <<80, 75, 3, 4, 20, 0, 0, 0, 8, 0, 0, 0, 0, 0, 0, 0, 0, 0, 0, 0>>
\* "BIN\0" read as a little-endian uint32: the type of a binary chunk
BIN_CHUNK == getUint32(<<66, 73, 78, 0>>, 0)

headOf(bytes, size) == SubSeq(bytes, 1, IF size < HeadBytes THEN size ELSE HeadBytes)

\* a file of binary content: a GLB header, one chunk header, the chunk's bytes
BinaryFile(name, size, readable, magic, version, length, chunkLength, chunkType, doc) ==
  [name |-> name, size |-> size, readable |-> readable,
   head |-> headOf(magic \o version \o LE32(length) \o LE32(chunkLength) \o LE32(chunkType),
                   size),
   chunk |-> doc, text |-> SyntaxDoc, zip |-> NoZip]

TextFile(name, size, readable, doc) ==
  [name |-> name, size |-> size, readable |-> readable, head |-> headOf(TextHead, size),
   chunk |-> SyntaxDoc, text |-> doc, zip |-> NoZip]

ZipFile(name, size, readable, zip) ==
  [name |-> name, size |-> size, readable |-> readable, head |-> headOf(ZipHead, size),
   chunk |-> SyntaxDoc, text |-> SyntaxDoc, zip |-> zip]

EmptyFile(name) ==
  [name |-> name, size |-> 0, readable |-> TRUE, head |-> <<>>,
   chunk |-> SyntaxDoc, text |-> EmptyDoc, zip |-> NoZip]

Magics       == {LE32(GLB_MAGIC), BE32(GLB_MAGIC), LE32(0)}
VersionBytes == {LE32(GLB_VERSION), LE32(1), BE32(GLB_VERSION)}

GoodGLB(name, size, readable) ==
  BinaryFile(name, size, readable, LE32(GLB_MAGIC), LE32(GLB_VERSION), size,
             size - HeadBytes, JSON_CHUNK, GoodDoc)

\* binary files that differ in size and header
HeaderFiles ==
  {BinaryFile(n, s, TRUE, m, v, s + d, s - HeadBytes, JSON_CHUNK, GoodDoc) :
     n \in {Name_glb, Name_GLB}, s \in {1, 11, 12, 19, 20, 64},
     m \in Magics, v \in VersionBytes, d \in {0, 1}}

\* binary files with a good header that differ in their first chunk
ChunkFiles ==
  {BinaryFile(Name_glb, s, TRUE, LE32(GLB_MAGIC), LE32(GLB_VERSION), s,
              IF c = "empty" THEN 0
              ELSE IF c = "fits" THEN s - HeadBytes ELSE s - HeadBytes + 8,
              t, doc) :
     s \in {64, OPTIMAL_SIZE + 1}, c \in {"empty", "fits", "beyond"},
     t \in {JSON_CHUNK, BIN_CHUNK}, doc \in CompatDocs \cup {SyntaxDoc, NullDoc}}

\* JSON texts
TextFiles ==
  {TextFile(n, s, TRUE, doc) :
     n \in {Name_gltf}, s \in {64, WARNING_SIZE + 1}, doc \in Docs}

Entry(name, doc) == [name |-> name, dir |-> FALSE, text |-> doc]
Folder(name)     == [name |-> name, dir |-> TRUE, text |-> SyntaxDoc]

Entry_gltf  == <<"m", ".", "g", "l", "t", "f">>
Entry_gltf2 == <<"N", ".", "G", "L", "T", "F">>
Entry_dgltf == <<"d", "/", "m", ".", "g", "l", "t", "f">>
Entry_bin   == <<"b", ".", "b", "i", "n">>
Entry_dbin  == <<"d", "/", "b", ".", "b", "i", "n">>
Entry_png   == <<"t", "/", "l", ".", "p", "n", "g">>
Entry_d     == <<"d", "/">>

Archive(entries, extraFiles) == [kind |-> "zip", entries |-> entries, extraFiles |-> extraFiles]

\* archives around one document
ArchivesOf(doc) ==
  {Archive(<<Entry(Entry_gltf, doc)>>, 0),
   Archive(<<Entry(Entry_gltf, doc), Entry(Entry_bin, SyntaxDoc), Entry(Entry_png, SyntaxDoc)>>, 0),
   Archive(<<Folder(Entry_d), Entry(Entry_dgltf, doc), Entry(Entry_dbin, SyntaxDoc)>>, 0),
   Archive(<<Folder(Entry_d), Entry(Entry_bin, SyntaxDoc), Entry(Entry_dgltf, doc)>>, 0)}

\* archives that differ in their entries
OtherArchives ==
  {NoZip, CorruptZip,
   Archive(<<>>, 0),
   Archive(<<Entry(Entry_bin, SyntaxDoc)>>, 0),
   Archive(<<Entry(Entry_gltf, GoodDoc), Entry(Entry_gltf2, GoodDoc)>>, 0),
   Archive(<<Entry(Entry_gltf2, NullDoc), Entry(Entry_bin, SyntaxDoc),
             Entry(Entry_dgltf, GoodDoc), Entry(Entry_gltf, GoodDoc)>>, 0),
   Archive(<<Entry(Entry_gltf, GoodDoc)>>, MAX_ZIP_FILES - 1),
   Archive(<<Entry(Entry_gltf, GoodDoc)>>, MAX_ZIP_FILES)}

GoodArchive == Archive(<<Entry(Entry_gltf, GoodDoc)>>, 0)

ZipFiles ==
  {ZipFile(Name_zip, s, TRUE, z) :
     s \in {64, OPTIMAL_SIZE + 1}, z \in OtherArchives \cup UNION {ArchivesOf(doc) : doc \in Docs}}

\* every size under every name, for good content of each kind
SizeFiles ==
  {EmptyFile(n) : n \in Names}
    \cup {GoodGLB(n, s, TRUE) : n \in Names, s \in Sizes}
    \cup {TextFile(n, s, TRUE, GoodDoc) : n \in Names, s \in Sizes}
    \cup {ZipFile(n, s, TRUE, GoodArchive) : n \in Names, s \in Sizes}

\* files whose bytes cannot be read
UnreadableFiles ==
  {GoodGLB(n, 64, FALSE) : n \in Names}
    \cup {TextFile(n, 64, FALSE, GoodDoc) : n \in Names}
    \cup {ZipFile(n, 64, FALSE, GoodArchive) : n \in Names}

Files == HeaderFiles \cup ChunkFiles \cup TextFiles \cup ZipFiles \cup SizeFiles
           \cup UnreadableFiles

(***************************************************************************)
(* The specification: a caller validates one file, then validates it again.*)
(***************************************************************************)
Init ==
  /\ \E f \in Files : file = [r \in Runs |-> f]
  /\ pc         = [r \in Runs |-> "idle"]
  /\ stages     = [r \in Runs |-> <<>>]
  /\ issues     = [r \in Runs |-> <<>>]
  /\ emitted    = [r \in Runs |-> <<>>]
  /\ held       = [r \in Runs |-> <<>>]
  /\ executed   = [r \in Runs |-> <<>>]
  /\ reads      = [r \in Runs |-> 0]
  /\ returned   = [r \in Runs |-> NoResult]
  /\ concurrent = FALSE
  /\ stored     = [r \in Runs |-> FALSE]
  /\ resolution = NoResolution

Next ==
  \E r \in DOMAIN pc :
    \/ Enter(r)
    \/ BeginIntegrity(r)
    \/ IntegrityStep(r)
    \/ ExtensionStep(r)
    \/ FormatStep(r)
    \/ CompatStep(r)

Spec == Init /\ [][Next]_vars

(***************************************************************************)
(* The concurrent specification: a caller starts calls 1 and 2 on two       *)
(* different files without waiting, so that their steps interleave at every *)
(* await of validateModel; then it repeats the two calls one after the      *)
(* other, as calls 3 and 4, each with no other call in flight.  What a      *)
(* check does between its own awaits (the reads of validateZIP and          *)
(* checkZIPStructure) touches the file and locals of the check only, so a   *)
(* check is one step.                                                       *)
(***************************************************************************)
\* the calls that repeat calls 1 and 2 alone
Replays == {3, 4}

\* the call that repeats call r
replayOf(r) == r + 2

\* files that end in each way a call can end
ConcurrentFiles ==
  {EmptyFile(Name_glb),
   GoodGLB(Name_glbTxt, 64, TRUE),
   GoodGLB(Name_GLB, 64, TRUE),
   GoodGLB(Name_glb, WARNING_SIZE + 1, TRUE),
   BinaryFile(Name_glb, 64, TRUE, LE32(GLB_MAGIC), LE32(1), 64, 44, JSON_CHUNK, GoodDoc),
   TextFile(Name_gltf, 64, TRUE, [GoodDoc EXCEPT !.materials = Absent, !.scenes = 0]),
   TextFile(Name_gltf, OPTIMAL_SIZE + 1, TRUE, [GoodDoc EXCEPT !.meshes = 0, !.scenes = 0]),
   TextFile(Name_gltf, 64, FALSE, GoodDoc),
   ZipFile(Name_zip, 64, TRUE, GoodArchive),
   ZipFile(Name_zip, 64, TRUE,
           Archive(<<Folder(Entry_d), Entry(Entry_bin, SyntaxDoc),
                     Entry(Entry_dgltf, [GoodDoc EXCEPT !.buffers = <<Uri_bin>>])>>, 0)),
   ZipFile(Name_zip, 64, TRUE, CorruptZip)}

InitConcurrent ==
  /\ \E f \in ConcurrentFiles : \E g \in ConcurrentFiles \ {f} :
       file = [r \in Runs \cup Replays |-> IF r \in {1, replayOf(1)} THEN f ELSE g]
  /\ pc         = [r \in Runs \cup Replays |-> "idle"]
  /\ stages     = [r \in Runs \cup Replays |-> <<>>]
  /\ issues     = [r \in Runs \cup Replays |-> <<>>]
  /\ emitted    = [r \in Runs \cup Replays |-> <<>>]
  /\ held       = [r \in Runs \cup Replays |-> <<>>]
  /\ executed   = [r \in Runs \cup Replays |-> <<>>]
  /\ reads      = [r \in Runs \cup Replays |-> 0]
  /\ returned   = [r \in Runs \cup Replays |-> NoResult]
  /\ concurrent = TRUE
  /\ stored     = [r \in Runs \cup Replays |-> FALSE]
  /\ resolution = NoResolution

SpecConcurrent == InitConcurrent /\ [][Next]_vars

(***************************************************************************)
(* Properties.                                                             *)
(***************************************************************************)
Verdicts == {"ready", "warning", "error"}

\* the statuses of call r's stages, in stage order
statusesOf(r) == [i \in 1..Len(stages[r]) |-> stages[r][i].status]

\* the checks call r has run
checksRun(r) == {executed[r][k].check : k \in 1..Len(executed[r])}

\* C1: for every candidate file validateModel completes and returns a verdict in
\* {ready, warning, error}: no call ends with an exception escaping it or waits
\* for a check that never settles, and a call that is over has returned a verdict.
C1_AlwaysReturnsVerdict ==
  /\ \A r \in Runs : pc[r] \notin {"threw", "hung"}
  /\ \A r \in Runs : pc[r] = "done" => returned[r].status \in Verdicts

\* a call has returned on a file whose check raised an exception inside a stage
C1_Witness ==
  \E r \in Runs :
    /\ pc[r] = "done"
    /\ file[r].readable
    /\ extensionOf(file[r].name) = Ext_gltf
    /\ file[r].text.parse \in {"syntax", "null"}
    /\ returned[r].status = "error"

\* C2: once a stage is failed, every later stage is pending and its check has
\* not been executed, in every state from then on.
C2_FailureIsTerminal ==
  \A r \in Runs : \A i \in 1..Len(stages[r]) :
    stages[r][i].status = "failed" =>
      \A j \in (i + 1)..Len(stages[r]) :
        /\ stages[r][j].status = "pending"
        /\ StageNames[j] \notin checksRun(r)

\* a call is over whose format check ran and failed
C2_Witness ==
  \E r \in Runs :
    /\ pc[r] = "done"
    /\ statusesOf(r) = <<"passed", "failed", "pending">>
    /\ "format-validation" \in checksRun(r)

\* C3: a call returns ready exactly when all three stages ended passed, error
\* exactly when a stage ended failed, and never warning.
C3_VerdictFromStages ==
  \A r \in Runs :
    pc[r] = "done" =>
      /\ returned[r].status = "ready" <=> statusesOf(r) = <<"passed", "passed", "passed">>
      /\ returned[r].status = "error" <=> (\E i \in 1..3 : stages[r][i].status = "failed")
      /\ returned[r].status # "warning"

\* a call returned ready although stage 3 collected issues
C3_Witness ==
  \E r \in Runs :
    /\ pc[r] = "done"
    /\ returned[r].status = "ready"
    /\ Len(returned[r].issues) > 0

\* C4: whenever a call returns ready, the returned issue list is empty.
C4_ReadyHasNoIssues ==
  \A r \in Runs :
    (pc[r] = "done" /\ returned[r].status = "ready") => returned[r].issues = <<>>

\* C5: a file of size 0, whatever its name, yields error with the single issue
\* 'File is empty'; file-integrity is failed and the other two stages are pending.
C5_EmptyFile ==
  \A r \in Runs :
    (pc[r] = "done" /\ file[r].size = 0) =>
      /\ returned[r] = [status |-> "error", issues |-> << <<"File is empty">> >>]
      /\ statusesOf(r) = <<"failed", "pending", "pending">>

\* a call on an empty file with a supported extension is over
C5_Witness ==
  \E r \in Runs :
    pc[r] = "done" /\ file[r].size = 0 /\ endsWith(file[r].name, Ext_glb)

\* the name ends, in lower case, in one of the three supported extensions
hasSupportedExtension(name) ==
  \E e \in {Ext_glb, Ext_gltf, Ext_zip} : endsWith(toLowerCase(name), e)

\* C6: a non-empty file of at most 100 MiB whose lower-cased extension is not
\* .glb, .gltf or .zip yields error with file-integrity passed, format-validation
\* failed and ar-compatibility pending, without validateFormat having been run
\* and without a read of the file's bytes.
C6_UnsupportedExtension ==
  \A r \in Runs :
    (/\ pc[r] = "done"
     /\ file[r].size > 0
     /\ file[r].size <= MAX_SIZE
     /\ ~hasSupportedExtension(file[r].name)) =>
      /\ returned[r].status = "error"
      /\ statusesOf(r) = <<"passed", "failed", "pending">>
      /\ reads[r] = 0
      /\ checksRun(r) = {"file-integrity"}

\* a call on a readable, well-formed GLB named m.glb.txt is over
C6_Witness ==
  \E r \in Runs :
    /\ pc[r] = "done"
    /\ file[r].name = Name_glbTxt
    /\ file[r].size = MAX_SIZE
    /\ validateGLB(file[r]).valid

\* C7 as stated: the first invocation of the observer delivers the stages all pending.
C7_FirstEmitAllPending ==
  \A r \in Runs :
    Len(emitted[r]) >= 1 =>
      \A i \in 1..3 : emitted[r][1][i].status = "pending"

\* C7 as amended: the first invocation of the observer delivers file-integrity
\* as processing and the other two stages as pending; the collection with all
\* three stages pending is never delivered.
C7_FirstEmitIntegrityProcessing ==
  \A r \in Runs :
    /\ Len(emitted[r]) >= 1 =>
         [i \in 1..3 |-> emitted[r][1][i].status] = <<"processing", "pending", "pending">>
    /\ \A k \in 1..Len(emitted[r]) :
         \E i \in 1..3 : emitted[r][k][i].status # "pending"

\* the observer has been invoked once and the integrity check has not run yet
C7_Witness ==
  \E r \in Runs : Len(emitted[r]) = 1 /\ pc[r] = "integrity" /\ executed[r] = <<>>

\* the stages whose status differs between invocation k and invocation k + 1
changedBetween(r, k) ==
  {i \in 1..3 : emitted[r][k][i].status # emitted[r][k + 1][i].status}

\* C8 as stated: between two consecutive invocations of the observer exactly
\* one stage has changed status.
C8_OneTransitionPerEmit ==
  \A r \in Runs : \A k \in 1..(Len(emitted[r]) - 1) :
    Cardinality(changedBetween(r, k)) = 1

\* C8 as amended: between two consecutive invocations of the observer either one
\* stage has changed (the processing stage became failed, or the last stage
\* became passed) or two have: a stage became passed and the next one became
\* processing, delivered together.
C8_OneSettlementPerEmit ==
  \A r \in Runs : \A k \in 1..(Len(emitted[r]) - 1) :
    \E i \in 1..3 :
      /\ emitted[r][k][i].status = "processing"
      /\ \/ /\ changedBetween(r, k) = {i}
            /\ \/ emitted[r][k + 1][i].status = "failed"
               \/ i = 3 /\ emitted[r][k + 1][i].status = "passed"
         \/ /\ i < 3
            /\ changedBetween(r, k) = {i, i + 1}
            /\ emitted[r][k + 1][i].status = "passed"
            /\ emitted[r][k][i + 1].status = "pending"
            /\ emitted[r][k + 1][i + 1].status = "processing"

\* a call is over that delivered two transitions in one invocation and one in another
C8_Witness ==
  \E r \in Runs :
    /\ pc[r] = "done"
    /\ \E k \in 1..(Len(emitted[r]) - 1) : Cardinality(changedBetween(r, k)) = 2
    /\ \E k \in 1..(Len(emitted[r]) - 1) : Cardinality(changedBetween(r, k)) = 1

\* the status changes a stage may make in one step
StageMoves ==
  {<<"pending", "processing">>, <<"processing", "passed">>, <<"processing", "failed">>}

\* C9: a stage is created pending, moves only pending -> processing ->
\* (passed | failed) and never changes afterwards; a stage's check is executed
\* only while the stage is processing; a stage that is passed or failed was
\* delivered to the observer as processing before.
C9_StageLifecycle ==
  /\ [][\A r \in Runs :
          /\ (stages[r] = <<>> /\ stages'[r] # <<>>) =>
               \A i \in 1..3 : stages'[r][i].status = "pending"
          /\ stages[r] # <<>> =>
               \A i \in 1..3 :
                 \/ stages'[r][i].status = stages[r][i].status
                 \/ <<stages[r][i].status, stages'[r][i].status>> \in StageMoves]_vars
  /\ [](\A r \in Runs :
          /\ \A k \in 1..Len(executed[r]) : executed[r][k].status = "processing"
          /\ \A i \in 1..Len(stages[r]) :
               stages[r][i].status \in {"passed", "failed"} =>
                 \E k \in 1..Len(emitted[r]) : emitted[r][k][i].status = "processing")

\* a call is over in which all three checks ran
C9_Witness ==
  \E r \in Runs :
    /\ pc[r] = "done"
    /\ Len(executed[r]) = 3
    /\ stages[r][3].status = "failed"

\* the bytes of "glTF", of version 2 and of the file's own length, as a GLB stores them
MagicBytes == <<103, 108, 84, 70>>
Version2Bytes == <<2, 0, 0, 0>>

\* the first rule of the GLB format check that applies to the bytes of f
glbRuleFor(f) ==
  IF f.size < 12 THEN "File too small to be valid GLB"
  ELSE IF SubSeq(f.head, 1, 4) # MagicBytes THEN "Invalid GLB file: incorrect magic number"
  ELSE IF SubSeq(f.head, 5, 8) # Version2Bytes THEN "Unsupported GLB version: "
  ELSE IF SubSeq(f.head, 9, 12) # LE32(f.size) THEN "GLB file length mismatch"
  ELSE "none"

\* C10: a .glb file that passes integrity and can be read is rejected by the
\* first rule that applies, in the order: under 12 bytes, magic, version,
\* length; the verdict is then error with that rule's message as the only
\* issue, format-validation failed and ar-compatibility pending.  A file to
\* which no rule applies passes format-validation.
C10_GLBRuleOrder ==
  \A r \in Runs :
    (/\ pc[r] = "done"
     /\ file[r].readable
     /\ file[r].size > 0
     /\ file[r].size <= MAX_SIZE
     /\ endsWith(toLowerCase(file[r].name), Ext_glb)) =>
      IF glbRuleFor(file[r]) = "none"
      THEN stages[r][2].status = "passed"
      ELSE /\ returned[r].status = "error"
           /\ statusesOf(r) = <<"passed", "failed", "pending">>
           /\ Len(returned[r].issues) = 1
           /\ returned[r].issues[1][1] = glbRuleFor(file[r])
           /\ stages[r][2].message = returned[r].issues[1]

\* a call is over on a GLB of 12 bytes or more whose magic, version and length are all wrong
C10_Witness ==
  \E r \in Runs :
    /\ pc[r] = "done"
    /\ endsWith(toLowerCase(file[r].name), Ext_glb)
    /\ file[r].size >= 12
    /\ SubSeq(file[r].head, 1, 4) # MagicBytes
    /\ SubSeq(file[r].head, 5, 8) # Version2Bytes
    /\ SubSeq(file[r].head, 9, 12) # LE32(file[r].size)
    /\ returned[r].issues = << <<"Invalid GLB file: incorrect magic number">> >>

\* the bytes of "JSON", as a GLB stores the type of a JSON chunk
JsonBytes == <<74, 83, 79, 78>>

\* the name ends, in lower case, in ext
isNamed(f, ext) == endsWith(toLowerCase(f.name), ext)

\* f holds a correct GLB header: magic, version 2 and its own length
hasGoodHeader(f) ==
  /\ f.size >= 12
  /\ SubSeq(f.head, 1, 4) = MagicBytes
  /\ SubSeq(f.head, 5, 8) = Version2Bytes
  /\ SubSeq(f.head, 9, 12) = LE32(f.size)

\* the first chunk of f is a JSON chunk whose bytes lie within the file
hasJsonChunk(f) ==
  /\ f.size >= 20
  /\ SubSeq(f.head, 17, 20) = JsonBytes
  /\ getUint32(f.head, 12) > 0
  /\ 20 + getUint32(f.head, 12) <= f.size

\* the document is a JSON object with every array the viewers look for and no animation
isCompleteDocument(gltf) ==
  /\ gltf.parse = "object"
  /\ gltf.hasAsset
  /\ gltf.version = <<"2", ".", "0">>
  /\ gltf.meshes # Absent /\ gltf.meshes > 0
  /\ gltf.scenes # Absent /\ gltf.scenes > 0
  /\ gltf.materials # Absent /\ gltf.materials > 0
  /\ gltf.animations \in {Absent, 0}

\* C11: a readable .glb file of at most 5 MiB with a correct header whose first
\* chunk is a JSON chunk holding a document with asset.version 2.0, non-empty
\* meshes, scenes and materials and no animations yields ready with an empty
\* issue list and all three stages passed.
C11_WellFormedGLBIsReady ==
  \A r \in Runs :
    (/\ pc[r] = "done"
     /\ isNamed(file[r], Ext_glb)
     /\ file[r].readable
     /\ file[r].size <= 5 * 1024 * 1024
     /\ hasGoodHeader(file[r])
     /\ hasJsonChunk(file[r])
     /\ isCompleteDocument(file[r].chunk)) =>
      /\ returned[r] = [status |-> "ready", issues |-> <<>>]
      /\ statusesOf(r) = <<"passed", "passed", "passed">>

\* a call is over on such a file of exactly 5 MiB whose document has an empty
\* animations array
C11_Witness ==
  \E r \in Runs :
    /\ pc[r] = "done"
    /\ isNamed(file[r], Ext_glb)
    /\ file[r].readable
    /\ file[r].size = 5 * 1024 * 1024
    /\ hasGoodHeader(file[r])
    /\ hasJsonChunk(file[r])
    /\ isCompleteDocument(file[r].chunk)
    /\ file[r].chunk.animations = 0

\* the archive's entries that are no directory and whose lower-cased name ends in .gltf
gltfEntriesOf(zip) ==
  {i \in 1..Len(zip.entries) :
     ~zip.entries[i].dir /\ endsWith(toLowerCase(zip.entries[i].name), Ext_gltf)}

\* f holds a glTF document the checks of its container can get at
hasDocument(f) ==
  IF isNamed(f, Ext_glb) THEN hasJsonChunk(f)
  ELSE IF isNamed(f, Ext_gltf) THEN TRUE
  ELSE f.zip.kind = "zip" /\ gltfEntriesOf(f.zip) # {}

\* that document: the JSON chunk, the text, or the first .gltf entry of the archive
documentOf(f) ==
  IF isNamed(f, Ext_glb) THEN f.chunk
  ELSE IF isNamed(f, Ext_gltf) THEN f.text
  ELSE f.zip.entries[CHOOSE i \in gltfEntriesOf(f.zip) :
                       \A j \in gltfEntriesOf(f.zip) : i <= j].text

\* the document was parsed and holds a non-empty meshes array
hasMeshes(gltf) == gltf.parse = "object" /\ gltf.meshes # Absent /\ gltf.meshes > 0

\* C12: a verdict of ready implies that the glTF document was parsed and holds
\* a non-empty meshes array; a call that reaches ar-compatibility on a parsed
\* document without meshes ends with ar-compatibility failed, verdict error and
\* 'No meshes found in model' among the issues.
C12_ReadyImpliesMeshes ==
  \A r \in Runs :
    /\ (pc[r] = "done" /\ returned[r].status = "ready") =>
         (hasDocument(file[r]) /\ hasMeshes(documentOf(file[r])))
    /\ (/\ pc[r] = "done"
        /\ Len(executed[r]) = 3
        /\ hasDocument(file[r])
        /\ documentOf(file[r]).parse = "object"
        /\ ~hasMeshes(documentOf(file[r]))) =>
         /\ stages[r][3].status = "failed"
         /\ returned[r].status = "error"
         /\ \E k \in 1..Len(returned[r].issues) : returned[r].issues[k] = M_NoMeshes

\* C13: a .glb file that passes the format check and has no first chunk of type
\* JSON, be it that the chunk has another type or that fewer than 8 bytes follow
\* the header, fails ar-compatibility with 'missing JSON chunk' and yields error.
C13_NoJsonChunkFails ==
  \A r \in Runs :
    (/\ pc[r] = "done"
     /\ isNamed(file[r], Ext_glb)
     /\ stages[r][2].status = "passed"
     /\ ~(file[r].size >= 20 /\ SubSeq(file[r].head, 17, 20) = JsonBytes)) =>
      /\ stages[r][3].status = "failed"
      /\ stages[r][3].message = <<"Invalid GLB structure: missing JSON chunk">>
      /\ returned[r].status = "error"

\* the version string parses to a number that is at least 2.0
parsesAtLeast2(version) ==
  LET x == parseFloat(version)
  IN  ~x.nan /\ ~x.neg /\ x.int >= 2

\* C14: the format check of a .gltf file, and of the .gltf entry of a ZIP,
\* accepts a document with an asset only if asset.version parses to a number
\* that is at least 2.0; a document whose asset.version is below 2.0 or parses
\* to no number is rejected at format-validation with verdict error.
C14_VersionAtLeast2 ==
  \A r \in Runs :
    (/\ pc[r] = "done"
     /\ Len(executed[r]) >= 2
     /\ isNamed(file[r], Ext_gltf) \/ isNamed(file[r], Ext_zip)
     /\ hasDocument(file[r])
     /\ documentOf(file[r]).parse = "object"
     /\ documentOf(file[r]).hasAsset) =>
      /\ stages[r][2].status = "passed" => parsesAtLeast2(documentOf(file[r]).version)
      /\ ~parsesAtLeast2(documentOf(file[r]).version) =>
           /\ stages[r][2].status = "failed"
           /\ returned[r].status = "error"

\* call r has run the format check on an archive that JSZip opened
checkedArchive(r) ==
  /\ pc[r] = "done"
  /\ Len(executed[r]) >= 2
  /\ isNamed(file[r], Ext_zip)
  /\ file[r].readable
  /\ file[r].zip.kind = "zip"

\* the call ended at format-validation: error, with ar-compatibility pending
endedAtFormat(r) ==
  /\ returned[r].status = "error"
  /\ statusesOf(r) = <<"passed", "failed", "pending">>

\* C15: a ZIP passes format-validation only if it holds exactly one entry that
\* is no directory and whose lower-cased name ends in .gltf; with none the stage
\* fails, with n > 1 it fails with a message that cites n; in both cases the
\* verdict is error and ar-compatibility stays pending.
C15_ExactlyOneGltfEntry ==
  \A r \in Runs :
    checkedArchive(r) =>
      LET n == Cardinality(gltfEntriesOf(file[r].zip))
      IN  /\ stages[r][2].status = "passed" => n = 1
          /\ n = 0 =>
               /\ endedAtFormat(r)
               /\ stages[r][2].message = <<"No GLTF file found in ZIP archive">>
          /\ n > 1 =>
               /\ endedAtFormat(r)
               /\ stages[r][2].message =
                    <<"Multiple GLTF files found in ZIP (", ToString(n),
                      "). ZIP should contain only one main GLTF file.">>
               /\ returned[r].issues = <<stages[r][2].message>>

\* a call is over on an archive with three .gltf entries, one of them in upper case
C15_Witness ==
  \E r \in Runs :
    /\ checkedArchive(r)
    /\ Cardinality(gltfEntriesOf(file[r].zip)) = 3
    /\ \E i \in gltfEntriesOf(file[r].zip) :
         file[r].zip.entries[i].name # toLowerCase(file[r].zip.entries[i].name)

\* the name of the archive's first .gltf entry
gltfNameOf(zip) ==
  zip.entries[CHOOSE i \in gltfEntriesOf(zip) : \A j \in gltfEntriesOf(zip) : i <= j].name

\* the 1-based indices of the uris that do not start with data: and resolve,
\* from the directory dir, to no entry of the archive
unresolved(uris, dir, zip) ==
  {i \in 1..Len(uris) :
     /\ uris[i] # <<>>
     /\ ~startsWith(uris[i], DataPrefix)
     /\ \A k \in 1..Len(zip.entries) : zip.entries[k].name # resolveZipPath(dir, uris[i])}

\* the references at the indices in idx, in index order, each as the message cites it
RECURSIVE citedFrom(_, _, _, _)
citedFrom(uris, idx, label, i) ==
  IF i > Len(uris) THEN <<>>
  ELSE IF i \in idx
  THEN <<(<<label, " ", ToString(i - 1), ": ">> \o uris[i])>>
         \o citedFrom(uris, idx, label, i + 1)
  ELSE citedFrom(uris, idx, label, i + 1)

\* the missing references of the document gltf of the archive, buffers first
missingCited(gltf, dir, zip) ==
  citedFrom(gltf.buffers, unresolved(gltf.buffers, dir, zip), "Buffer", 1)
    \o citedFrom(gltf.images, unresolved(gltf.images, dir, zip), "Image", 1)

\* call r has run the format check on an archive with one valid .gltf entry
\* whose references are all strings
checkedOneValidGltf(r) ==
  /\ checkedArchive(r)
  /\ Cardinality(gltfEntriesOf(file[r].zip)) = 1
  /\ documentOf(file[r]).parse = "object"
  /\ documentOf(file[r]).hasAsset
  /\ parsesAtLeast2(documentOf(file[r]).version)
  /\ \A i \in 1..Len(documentOf(file[r]).buffers) :
       documentOf(file[r]).buffers[i] # NonStringUri
  /\ \A i \in 1..Len(documentOf(file[r]).images) :
       documentOf(file[r]).images[i] # NonStringUri

\* what C16 says of a call on an archive whose missing references are missing
formatFollowsReferences(r, missing) ==
  IF Len(missing) > 0
  THEN /\ endedAtFormat(r)
       /\ stages[r][2].message =
            <<"Missing referenced resources in ZIP: ">> \o joinMessages(missing)
       /\ returned[r].issues = <<stages[r][2].message>>
  ELSE stages[r][2].status = "passed"

\* C16: for a ZIP with one valid .gltf entry, if a buffers[].uri or images[].uri
\* that does not start with data: resolves, from the directory of the .gltf
\* entry, to a path that is no entry of the archive, format-validation fails
\* with one message that lists every such reference, the verdict is error and
\* ar-compatibility stays pending; if all such references resolve, the stage passes.
C16_MissingReferences ==
  \A r \in Runs :
    checkedOneValidGltf(r) =>
      formatFollowsReferences(r, missingCited(documentOf(file[r]),
                                              gltfDirOf(gltfNameOf(file[r].zip)),
                                              file[r].zip))

\* a call is over on an archive whose document, in a folder, names a buffer
\* that is an entry of the root only and an image that is no entry: both are listed
C16_Witness ==
  \E r \in Runs :
    /\ checkedOneValidGltf(r)
    /\ gltfDirOf(gltfNameOf(file[r].zip)) = Entry_d
    /\ documentOf(file[r]).buffers = <<Uri_bin>>
    /\ documentOf(file[r]).images = <<Uri_png>>
    /\ \E k \in 1..Len(file[r].zip.entries) : file[r].zip.entries[k].name = Entry_bin
    /\ stages[r][2].message =
         <<"Missing referenced resources in ZIP: ", "Buffer", " ", "0", ": ">> \o Uri_bin
           \o <<", ", "Image", " ", "0", ": ">> \o Uri_png

\* C17: two calls of validateModel on the same unchanged file return the same
\* verdict and the same issue list in the same order and deliver the same
\* sequence of stage states to the observer; the second call starts from stages
\* and an issue list of its own, whatever the first call left behind.
C17_SameFileSameResult ==
  \A r \in Runs : \A q \in Runs :
    (r < q /\ file[r] = file[q] /\ pc[r] = "done") =>
      /\ pc[q] = "created" => (stages[q] = InitialStages /\ issues[q] = <<>>)
      /\ \A k \in 1..Len(emitted[q]) : emitted[q][k] = emitted[r][k]
      /\ pc[q] = "done" =>
           /\ returned[q] = returned[r]
           /\ emitted[q] = emitted[r]
           /\ stages[q] = stages[r]

\* both calls are over, each having returned ready with two issues after four
\* invocations of the observer
C17_Witness ==
  /\ \A r \in Runs : pc[r] = "done"
  /\ file[1] = file[2]
  /\ returned[2].status = "ready"
  /\ Len(returned[2].issues) = 2
  /\ Len(emitted[2]) = 4

\* C18: of two validateModel calls on different files whose steps interleave
\* at their awaits, each returns the verdict and the issue list, and delivers
\* the sequence of stage states, of the same call run alone; a step of one call
\* changes no other call's stage array, issue list, deliveries or return value.
C18_InterleavedAsAlone ==
  /\ [](\A r \in Runs :
          (file[1] # file[2] /\ pc[replayOf(r)] = "done") =>
            /\ pc[r] = "done"
            /\ returned[r] = returned[replayOf(r)]
            /\ emitted[r] = emitted[replayOf(r)]
            /\ stages[r] = stages[replayOf(r)]
            /\ issues[r] = issues[replayOf(r)])
  /\ [][\A r \in DOMAIN pc :
          pc'[r] = pc[r] =>
            /\ stages'[r] = stages[r]
            /\ issues'[r] = issues[r]
            /\ emitted'[r] = emitted[r]
            /\ returned'[r] = returned[r]]_vars

\* the two calls and their replays are over: call 1 ended in error at
\* format-validation and call 2 returned ready with issues
C18_Witness ==
  /\ concurrent
  /\ \A r \in Runs \cup Replays : pc[r] = "done"
  /\ returned[2].status = "ready" /\ Len(returned[2].issues) > 0
  /\ returned[1].status = "error"
  /\ Len(emitted[1]) = 3

\* C19: the integrity stage rejects the size 0 and the sizes above 100 MiB
\* (104857600 bytes) and no other: a file of exactly 100 MiB passes, one of
\* 100 MiB + 1 byte fails, and a file over 10 MiB that passes leaves the issue
\* list as empty as any other.
C19_IntegrityLimits ==
  \A r \in Runs :
    Len(executed[r]) >= 1 =>
      /\ stages[r][1].status = "failed" <=>
           (file[r].size = 0 \/ file[r].size > 100 * 1024 * 1024)
      /\ stages[r][1].status = "passed" <=>
           (file[r].size > 0 /\ file[r].size <= 100 * 1024 * 1024)
      /\ stages[r][1].status = "failed" =>
           (returned[r].status = "error" /\ Len(returned[r].issues) = 1)
      /\ pc[r] = "extension" => issues[r] = <<>>

\* a file of exactly 100 MiB has passed integrity and nothing else has run
C19_Witness ==
  \E r \in Runs :
    /\ pc[r] = "extension"
    /\ file[r].size = 100 * 1024 * 1024
    /\ stages[r][1].status = "passed"
    /\ issues[r] = <<>>

\* the issues call r returned whose text starts with first
issuesStarting(r, first) ==
  {k \in 1..Len(returned[r].issues) :
     Len(returned[r].issues[k]) > 0 /\ returned[r].issues[k][1] = first}

\* the issues that are the performance warning and the softer size advisory
perfIssues(r) == issuesStarting(r, "Large file size (")
softIssues(r) == issuesStarting(r, "File size (")

\* the size advice the thresholds ask for: one performance warning above 20 MiB,
\* one advisory above 5 MiB and up to 20 MiB, nothing up to 5 MiB
sizeAdviceGiven(r) ==
  /\ file[r].size > 20 * 1024 * 1024 =>
       (Cardinality(perfIssues(r)) = 1 /\ softIssues(r) = {})
  /\ (file[r].size > 5 * 1024 * 1024 /\ file[r].size <= 20 * 1024 * 1024) =>
       (Cardinality(softIssues(r)) = 1 /\ perfIssues(r) = {})
  /\ file[r].size <= 5 * 1024 * 1024 =>
       (perfIssues(r) = {} /\ softIssues(r) = {})

\* call r is over and has run the ar-compatibility check
ranCompatibility(r) == pc[r] = "done" /\ Len(executed[r]) = 3

\* C20 as stated: every call that reaches ar-compatibility gets the size advice
\* of the thresholds, never both warnings, also when the structure check found
\* the model invalid.
C20_SizeAdviceAlways ==
  \A r \in Runs : ranCompatibility(r) => sizeAdviceGiven(r)

\* C20 as amended: a call whose structure check found the model valid gets the
\* size advice of the thresholds, never both warnings; a call whose structure
\* check found the model invalid gets no size advice at all.
C20_SizeAdviceWhenValid ==
  \A r \in Runs :
    ranCompatibility(r) =>
      IF stages[r][3].status = "passed"
      THEN sizeAdviceGiven(r)
      ELSE perfIssues(r) = {} /\ softIssues(r) = {}

\* a call is over on a file above 20 MiB whose document has no meshes: it ran
\* the third check and returned no size advice
C20_Witness ==
  \E r \in Runs :
    /\ ranCompatibility(r)
    /\ file[r].size > 20 * 1024 * 1024
    /\ stages[r][3].status = "failed"
    /\ perfIssues(r) = {}

(***************************************************************************)
(* The container specification: a caller validates one glTF document three *)
(* times, one call after the other: as a standalone .gltf file (call 1),   *)
(* as the one .gltf entry of an archive that holds the resources the       *)
(* document can name (call 2), and as the JSON chunk of a GLB (call 3).    *)
(***************************************************************************)
AsGltf == 1
AsZip  == 2
AsGlb  == 3

Containers == {AsGltf, AsZip, AsGlb}

\* the three files around one document
containersOf(doc) ==
  <<TextFile(Name_gltf, 64, TRUE, doc),
    ZipFile(Name_zip, 64, TRUE,
            Archive(<<Entry(Entry_gltf, doc), Entry(Entry_bin, SyntaxDoc),
                      Entry(Entry_png, SyntaxDoc)>>, 0)),
    BinaryFile(Name_glb, 64, TRUE, LE32(GLB_MAGIC), LE32(GLB_VERSION), 64,
               64 - HeadBytes, JSON_CHUNK, doc)>>

InitContainers ==
  /\ \E doc \in Docs : file = containersOf(doc)
  /\ pc         = [r \in Containers |-> "idle"]
  /\ stages     = [r \in Containers |-> <<>>]
  /\ issues     = [r \in Containers |-> <<>>]
  /\ emitted    = [r \in Containers |-> <<>>]
  /\ held       = [r \in Containers |-> <<>>]
  /\ executed   = [r \in Containers |-> <<>>]
  /\ reads      = [r \in Containers |-> 0]
  /\ returned   = [r \in Containers |-> NoResult]
  /\ concurrent = FALSE
  /\ stored     = [r \in Containers |-> FALSE]
  /\ resolution = NoResolution

SpecContainers == InitContainers /\ [][Next]_vars

\* the document the three calls of the container specification validate
theDocument == file[AsGltf].text

\* the uris of the document's buffers and images
urisOf(doc) == {doc.buffers[i] : i \in DOMAIN doc.buffers} \cup {doc.images[i] : i \in DOMAIN doc.images}

\* the document names no resource outside itself
hasNoExternalReference(doc) == \A uri \in urisOf(doc) : uri # NonStringUri /\ ~isExternal(uri)

\* the call's format check has given its result
formatChecked(r) == Len(executed[r]) >= 2 /\ pc[r] \in {"compat", "done"}

\* both the standalone call and the archive call have checked the format of a
\* parsed document without external references
bothFormatChecked ==
  /\ DOMAIN pc = Containers
  /\ formatChecked(AsGltf) /\ formatChecked(AsZip)
  /\ theDocument.parse = "object"
  /\ hasNoExternalReference(theDocument)

formatFailureOf(r) == IF stages[r][2].status = "failed" THEN stages[r][2].message ELSE NoMessage

\* C21, as stated: for any glTF document the asset/version format checks
\* give the same decision and the same failure message in a standalone
\* .gltf file and in the one .gltf entry of a ZIP without external references
C21_SameDecisionAndMessage ==
  bothFormatChecked =>
    /\ stages[AsGltf][2].status = stages[AsZip][2].status
    /\ formatFailureOf(AsGltf) = formatFailureOf(AsZip)

\* C21, amended: the decision is the same; the failure message is the same
\* for a version below 2.0 only: a missing asset and a missing version are
\* reported with the words "GLTF file" in the archive and without them in
\* the standalone file
C21_SameDecision ==
  bothFormatChecked =>
    /\ stages[AsGltf][2].status = stages[AsZip][2].status
    /\ stages[AsGltf][2].status = "failed" =>
         IF ~theDocument.hasAsset
         THEN /\ formatFailureOf(AsGltf) = <<"Missing required \"asset\" property">>
              /\ formatFailureOf(AsZip) = <<"GLTF file missing required \"asset\" property">>
         ELSE IF theDocument.version = <<>>
         THEN /\ formatFailureOf(AsGltf) = <<"Missing GLTF version">>
              /\ formatFailureOf(AsZip) = <<"GLTF file missing version">>
         ELSE /\ formatFailureOf(AsGltf) = formatFailureOf(AsZip)
              /\ formatFailureOf(AsGltf) =
                   <<"GLTF version ">> \o theDocument.version \o <<" not supported. Use 2.0+">>

\* both calls have rejected a document whose version is 1.9
C21_Witness ==
  /\ bothFormatChecked
  /\ stages[AsGltf][2].status = "failed" /\ stages[AsZip][2].status = "failed"
  /\ theDocument.hasAsset /\ theDocument.version = <<"1", ".", "9">>

SharedAdvisories == {W_NoScenes, W_NoMaterials, W_Animations}

\* the shared advisories in the issue list the call returned
sharedAdvisoriesOf(r) ==
  {w \in SharedAdvisories : \E i \in DOMAIN returned[r].issues : returned[r].issues[i] = w}

\* the call has returned after its compatibility check ran on a parsed
\* document with at least one mesh
checkedMeshes(r) ==
  /\ DOMAIN pc = Containers
  /\ ranCompatibility(r)
  /\ theDocument.parse = "object"
  /\ theDocument.meshes # Absent /\ theDocument.meshes >= 1

\* every uri of the document is a string
hasStringUris(doc) == \A uri \in urisOf(doc) : uri # NonStringUri

compatibilityOf(r) == validateARCompatibility(file[r], extensionOf(file[r].name))

\* the issue list validateModel returns after a stage-3 result
issuesAfter(compatibilityResult) ==
  IF compatibilityResult.valid THEN compatibilityResult.warnings
  ELSE Append(compatibilityResult.warnings, compatibilityResult.message)

\* C23: every warning of the stage-3 check is in the returned issue list,
\* in order, whether the check reports valid or invalid; when it reports
\* invalid the stage-3 failure message follows them as the last element
C23_WarningsThenFailure ==
  \A r \in DOMAIN pc :
    ranCompatibility(r) =>
      \E compatibilityResult \in {compatibilityOf(r)} :
        /\ returned[r].issues = issuesAfter(compatibilityResult)
        /\ ~compatibilityResult.valid =>
             /\ stages[r][3].status = "failed"
             /\ returned[r].issues[Len(returned[r].issues)] = stages[r][3].message

\* a call has returned after a stage-3 check that reported invalid with a warning
C23_Witness ==
  \E r \in DOMAIN pc :
    /\ ranCompatibility(r)
    /\ stages[r][3].status = "failed"
    /\ Len(returned[r].issues) >= 2
    /\ returned[r].issues[1] = W_NoScenes
    /\ returned[r].issues[2] = M_NoMeshes

(***************************************************************************)
(* The path specification: one call of resolveZipPath, on the directory of *)
(* a .gltf entry and a uri, and then a call on the empty directory and the *)
(* path the first call returned.                                           *)
(***************************************************************************)
\* most segments of a uri
MaxSegments == 3

\* names a .gltf entry of an archive can have
GltfEntryNames ==
  {Entry_gltf, Entry_dgltf,
   <<"d", "/", "e", "/", "m", ".", "g", "l", "t", "f">>,
   <<".", ".", "/", "m", ".", "g", "l", "t", "f">>,
   <<".", "/", "d", "/", "m", ".", "g", "l", "t", "f">>,
   <<"/", "m", ".", "g", "l", "t", "f">>,
   <<"d", "/", "/", "m", ".", "g", "l", "t", "f">>}

\* the directories validateZIP and checkZIPStructure resolve from
BaseDirs == {gltfDirOf(n) : n \in GltfEntryNames}

Segments == {<<>>, <<".">>, <<".", ".">>, <<"a">>, <<".", "a">>, Uri_bin}

\* uris of one to MaxSegments segments
RelativePaths == {join(segs, "/") : segs \in UNION {[1..k -> Segments] : k \in 1..MaxSegments}}

InitResolve ==
  /\ file       = <<>>
  /\ pc         = <<>>
  /\ stages     = <<>>
  /\ issues     = <<>>
  /\ emitted    = <<>>
  /\ held       = <<>>
  /\ executed   = <<>>
  /\ reads      = <<>>
  /\ returned   = <<>>
  /\ concurrent = FALSE
  /\ stored     = <<>>
  /\ \E b \in BaseDirs : \E u \in RelativePaths :
       resolution = [pc |-> "called", baseDir |-> b, relativePath |-> u,
                     normalized |-> <<>>, again |-> <<>>]

\* resolveZipPath(baseDir, relativePath) returns
Resolve ==
  /\ resolution.pc = "called"
  /\ resolution' = [resolution EXCEPT
                      !.pc = "resolved",
                      !.normalized = resolveZipPath(resolution.baseDir, resolution.relativePath)]
  /\ UNCHANGED <<file, pc, stages, issues, emitted, held, executed, reads, returned, concurrent, stored>>

\* resolveZipPath('', normalized) returns
ResolveAgain ==
  /\ resolution.pc = "resolved"
  /\ resolution' = [resolution EXCEPT
                      !.pc = "again",
                      !.again = resolveZipPath(<<>>, resolution.normalized)]
  /\ UNCHANGED <<file, pc, stages, issues, emitted, held, executed, reads, returned, concurrent, stored>>

NextResolve == Resolve \/ ResolveAgain

SpecResolve == InitResolve /\ [][NextResolve]_vars

\* the segments of a path: what lies between its '/' characters
segmentsOf(path) == split(path, "/")

\* the segments of segs[1..i] that are retained, read from the last to the
\* first: '.' and empty segments are dropped, a '..' drops the nearest
\* segment before it that is retained, skip being the '..' still to be served
RECURSIVE retained(_, _, _)
retained(segs, i, skip) ==
  IF i = 0 THEN <<>>
  ELSE IF segs[i] = <<".", ".">> THEN retained(segs, i - 1, skip + 1)
  ELSE IF segs[i] \in {<<>>, <<".">>} THEN retained(segs, i - 1, skip)
  ELSE IF skip > 0 THEN retained(segs, i - 1, skip - 1)
  ELSE Append(retained(segs, i - 1, 0), segs[i])

\* the path the claim describes for a directory and a uri
describedPath(baseDir, uri) ==
  LET segs == segmentsOf(baseDir) \o segmentsOf(uri)
  IN  join(retained(segs, Len(segs), 0), "/")

\* no segment of the path is '.', '..' or empty (the empty path has no segment)
isNormalized(path) ==
  path # <<>> =>
    \A i \in DOMAIN segmentsOf(path) : segmentsOf(path)[i] \notin {<<>>, <<".">>, <<".", ".">>}

\* C24: resolveZipPath returns the '/'-joined segments of baseDir followed by
\* the uri without the '.' and empty segments, each '..' removing the nearest
\* retained segment before it; the result has no '.', '..' or empty segment,
\* and resolving it from the empty directory returns it unchanged
C24_ResolveZipPath ==
  /\ resolution.pc \in {"resolved", "again"} =>
       /\ resolution.normalized = describedPath(resolution.baseDir, resolution.relativePath)
       /\ isNormalized(resolution.normalized)
  /\ resolution.pc = "again" => resolution.again = resolution.normalized

\* '../b.bin' was resolved from 'd/' to 'b.bin', and 'b.bin' resolved again
C24_Witness ==
  /\ resolution.pc = "again"
  /\ resolution.baseDir = Entry_d
  /\ resolution.relativePath = Uri_upBin
  /\ resolution.normalized = Uri_bin
  /\ resolution.again = Uri_bin

\* at most one stage is processing, every stage before a stage that is not
\* pending is passed, every stage after a processing or failed stage is pending
isPrefixPattern(st) ==
  /\ Cardinality({i \in DOMAIN st : st[i].status = "processing"}) <= 1
  /\ \A i \in DOMAIN st :
       st[i].status # "pending" => \A j \in DOMAIN st : j < i => st[j].status = "passed"
  /\ \A i \in DOMAIN st :
       st[i].status \in {"processing", "failed"} =>
         \A j \in DOMAIN st : j > i => st[j].status = "pending"

\* C25: every stage state handed to the observer, and the stage state at
\* return, is a prefix pattern: at most one stage processing, passed stages
\* before every stage that is not pending, pending stages after every
\* processing or failed stage
C25_PrefixPattern ==
  \A r \in DOMAIN pc :
    /\ \A k \in DOMAIN emitted[r] : isPrefixPattern(emitted[r][k])
    /\ pc[r] = "done" => isPrefixPattern(stages[r])

\* a call has returned with format-validation failed after three deliveries
C25_Witness ==
  \E r \in DOMAIN pc :
    /\ pc[r] = "done"
    /\ Len(emitted[r]) = 3
    /\ statusesOf(r) = <<"passed", "failed", "pending">>

\* the stage state of the last onStageUpdate of the call
lastEmitted(r) == emitted[r][Len(emitted[r])]

\* C26: when validateModel has returned, the observer was last handed the
\* final stage state: no stage of it is processing, and the verdict is error
\* if and only if one of its stages is failed
C26_FinalStateDelivered ==
  \A r \in DOMAIN pc :
    pc[r] = "done" =>
      /\ Len(emitted[r]) > 0
      /\ lastEmitted(r) = stages[r]
      /\ \A i \in DOMAIN lastEmitted(r) : lastEmitted(r)[i].status # "processing"
      /\ returned[r].status = "error" <=>
           \E i \in DOMAIN lastEmitted(r) : lastEmitted(r)[i].status = "failed"

\* a call has returned error after ar-compatibility failed, the fourth
\* delivery being the failed stage state
C26_Witness ==
  \E r \in DOMAIN pc :
    /\ pc[r] = "done"
    /\ returned[r].status = "error"
    /\ Len(emitted[r]) = 4
    /\ lastEmitted(r)[3].status = "failed"

ZipStage3Outcomes ==
  {<<"No GLTF file found in ZIP">>, <<"Referenced buffer not found in ZIP: ">>,
   <<"Referenced texture not found in ZIP: ">>}

\* the message starts with one of the texts
startsWithOneOf(message, texts) == Len(message) > 0 /\ <<message[1]>> \in texts

\* C28: in a full run on a ZIP file, no issue and no stage-3 message is 'No
\* GLTF file found in ZIP', 'Referenced buffer not found in ZIP' or
\* 'Referenced texture not found in ZIP'; stage 3 runs only on an archive with
\* one .gltf entry whose external references all resolve
C28_NoUnresolvedAtStage3 ==
  \A r \in DOMAIN pc :
    isNamed(file[r], Ext_zip) =>
      /\ \A k \in DOMAIN issues[r] : ~startsWithOneOf(issues[r][k], ZipStage3Outcomes)
      /\ \A k \in DOMAIN returned[r].issues :
           ~startsWithOneOf(returned[r].issues[k], ZipStage3Outcomes)
      /\ pc[r] # "idle" => ~startsWithOneOf(stages[r][3].message, ZipStage3Outcomes)
      /\ Len(executed[r]) = 3 =>
           /\ Cardinality(gltfEntriesOf(file[r].zip)) = 1
           /\ missingCited(documentOf(file[r]), gltfDirOf(gltfNameOf(file[r].zip)),
                           file[r].zip) = <<>>

\* a call has returned after both stages resolved the external buffer of a
\* document that lies in a folder of the archive
C28_Witness ==
  \E r \in DOMAIN pc :
    /\ ranCompatibility(r)
    /\ isNamed(file[r], Ext_zip)
    /\ stages[r][3].status = "passed"
    /\ gltfNameOf(file[r].zip) = Entry_dgltf
    /\ documentOf(file[r]).buffers = <<Uri_bin>>

\* C29: an error verdict has a non-empty issue list: one element when the run
\* failed at file-integrity or format-validation, at least one, the last being
\* the stage-3 failure message, when it failed at ar-compatibility
C29_ErrorHasIssues ==
  \A r \in DOMAIN pc :
    (pc[r] = "done" /\ returned[r].status = "error") =>
      /\ Len(returned[r].issues) >= 1
      /\ (stages[r][1].status = "failed" \/ stages[r][2].status = "failed") =>
           Len(returned[r].issues) = 1
      /\ stages[r][3].status = "failed" =>
           returned[r].issues[Len(returned[r].issues)] = stages[r][3].message
      /\ \E i \in 1..3 : stages[r][i].status = "failed"

\* a call has returned error with one issue after the format check failed
C29_Witness ==
  \E r \in DOMAIN pc :
    /\ pc[r] = "done"
    /\ returned[r].status = "error"
    /\ stages[r][2].status = "failed"
    /\ Len(executed[r]) = 2
    /\ returned[r].issues = <<stages[r][2].message>>

\* C27: the stage collection handed to onStageUpdate at one invocation is a
\* snapshot: what an observer that kept it reads through it later is what it
\* was handed, whatever the later transitions of the run
C27_IndependentSnapshots ==
  \A r \in DOMAIN pc :
    /\ Len(held[r]) = Len(emitted[r])
    /\ \A k \in DOMAIN emitted[r] : held[r][k] = emitted[r][k]

(***************************************************************************)
(* The upload specification: useModelUpload.uploadModel on one file.  The  *)
(* hook asks uploadService.validateFile, puts an accepted file in the      *)
(* object store, and then calls validateModel on it.                       *)
(***************************************************************************)
\* const maxSize = 100 * 1024 * 1024
maxSize == 100 * 1024 * 1024

allowedExtensions == {Ext_glb, Ext_gltf, Ext_zip}

\* uploadService.validateFile
validateFile(f) ==
  IF extensionOf(f.name) \notin allowedExtensions
  THEN [valid |-> FALSE, error |-> <<"Only .glb, .gltf, and .zip files are supported">>]
  ELSE IF f.size > maxSize
  THEN [valid |-> FALSE, error |-> <<"File size must be less than 100MB">>]
  ELSE [valid |-> TRUE, error |-> NoMessage]

\* the hook asks validateFile and returns null when the file is not valid
ValidateFile(r) ==
  /\ pc[r] = "picked"
  /\ pc' = [pc EXCEPT ![r] = IF validateFile(file[r]).valid THEN "uploading" ELSE "rejected"]
  /\ UNCHANGED <<file, stages, issues, emitted, held, executed, reads, returned, concurrent, stored, resolution>>

\* uploadService.uploadZipModel: JSZip opens the file and a name that ends in
\* .gltf is looked for among all its entries; then the entries are stored
uploadZipModel(f) ==
  IF ~f.readable \/ f.zip.kind # "zip" THEN {"throw"}
  ELSE IF \A i \in DOMAIN f.zip.entries :
            ~endsWith(toLowerCase(f.zip.entries[i].name), Ext_gltf)
  THEN {"throw"}
  ELSE {"stored", "throw"}

\* uploadService.uploadModel: how the call can end; the store is outside the
\* program and can refuse any upload
uploadModel(f) ==
  IF extensionOf(f.name) = Ext_zip THEN uploadZipModel(f)
  ELSE IF f.readable THEN {"stored", "throw"} ELSE {"throw"}

\* await uploadService.uploadModel: the file is stored, or the upload throws
\* and the hook returns null from its catch
UploadModel(r) ==
  /\ pc[r] = "uploading"
  /\ \E outcome \in uploadModel(file[r]) :
       IF outcome = "stored"
       THEN /\ stored' = [stored EXCEPT ![r] = TRUE]
            /\ pc' = [pc EXCEPT ![r] = "idle"]
       ELSE /\ pc' = [pc EXCEPT ![r] = "uploadFailed"]
            /\ UNCHANGED stored
  /\ UNCHANGED <<file, stages, issues, emitted, held, executed, reads, returned, concurrent, resolution>>

\* the one call of the hook the specification follows
Uploads == {1}

InitUpload ==
  /\ \E f \in SizeFiles \cup UnreadableFiles : file = [r \in Uploads |-> f]
  /\ pc         = [r \in Uploads |-> "picked"]
  /\ stages     = [r \in Uploads |-> <<>>]
  /\ issues     = [r \in Uploads |-> <<>>]
  /\ emitted    = [r \in Uploads |-> <<>>]
  /\ held       = [r \in Uploads |-> <<>>]
  /\ executed   = [r \in Uploads |-> <<>>]
  /\ reads      = [r \in Uploads |-> 0]
  /\ returned   = [r \in Uploads |-> NoResult]
  /\ concurrent = FALSE
  /\ stored     = [r \in Uploads |-> FALSE]
  /\ resolution = NoResolution

NextUpload ==
  \E r \in DOMAIN pc :
    \/ ValidateFile(r)
    \/ UploadModel(r)
    \/ Enter(r)
    \/ BeginIntegrity(r)
    \/ IntegrityStep(r)
    \/ ExtensionStep(r)
    \/ FormatStep(r)
    \/ CompatStep(r)

SpecUpload == InitUpload /\ [][NextUpload]_vars

\* what validateModel says of a file that fails its size or extension gates
GateFailures ==
  {<<"File is empty">>, <<"File too large (">>,
   <<"File format not supported. AR viewers require GLB, GLTF, or ZIP with GLTF.">>}

\* C30: a file that validateFile accepted and that was stored is never failed
\* by validateModel with 'File too large', 'Unsupported file format' or 'File
\* is empty': no stored file is rejected at the integrity stage or at the
\* extension check
C30_StoredPassesGates ==
  \A r \in DOMAIN pc :
    stored[r] =>
      /\ \A k \in DOMAIN issues[r] : ~startsWithOneOf(issues[r][k], GateFailures)
      /\ pc[r] = "done" =>
           /\ stages[r][1].status = "passed"
           /\ stages[r][2].message # <<"Unsupported file format. Use GLB, GLTF, or ZIP.">>

====
